---- MODULE Spec2Model ----
(***************************************************************************)
(* Lifecycle manager of the opencode server binary (src-tauri/src/opencode) *)
(* as a state machine: OpencodeService (service.rs) together with the parts *)
(* of OpencodeDownloader (downloader.rs) that its operations drive.         *)
(*                                                                          *)
(* Threads of control:                                                      *)
(*   - one lifecycle operation at a time (initialize, start, stop, restart, *)
(*     update_opencode): record `life`;                                     *)
(*   - the progress-reporter tasks spawned by initialize / update_opencode: *)
(*     sequence `reps`, one entry per spawned task;                         *)
(*   - a caller of get_status: record `gs`;                                 *)
(*   - a caller of set_app_handle: record `att`;                            *)
(*   - the environment: the child process may exit at any time.             *)
(* Every acquisition of one of the RwLocks (config, status, process,        *)
(* app_handle) is one atomic step; code between two acquisitions that       *)
(* touches no shared field is merged into the neighbouring step.            *)
(*                                                                          *)
(* Besides the fields of the service the state holds what the subscriber    *)
(* has last been sent (lastEv, lastProgress) and `ord`, the relative age of *)
(* the status writes whose values are still held by someone.                *)
(*                                                                          *)
(* Specifications: Spec (the lifecycle operations with set_config and       *)
(* set_mode), SpecQuery (Spec with a concurrent get_status), SpecAttach     *)
(* (Spec with a concurrent set_app_handle), SpecSetup (SpecQuery started    *)
(* after the application's setup has attached the handle), SpecStatus       *)
(* (get_status next to initialize, start, stop, restart with the binary     *)
(* installed), SpecProgress (the installing operations with downloads of    *)
(* several chunks), SpecUnsupported (the same on a build without a release  *)
(* asset), SpecVersion (fetch_latest_version with the version cache and     *)
(* the clock), SpecInfo (get_version_info over pairs of version tags),      *)
(* SpecError (the operations that may follow a stored Error status),        *)
(* SpecExtract (download_file and extract_binary_sync over the files of the *)
(* bin directory), SpecConfigFile (the opencode.json that                   *)
(* start_local_service writes or patches), SpecMissing (start, stop and     *)
(* restart with no binary installed), SpecBoot (the setup task of lib.rs:   *)
(* set_app_handle, initialize, then start when auto_start is set),          *)
(* SpecLocks (the lock acquisitions of every operation, each caller         *)
(* following the acquire and release order of its code), SpecTerminals      *)
(* (commands/terminal.rs: create_terminal, close and the reader thread of   *)
(* each instance) and SpecDiff (commands/diff.rs: group_into_hunks over     *)
(* sequences of diff lines).                                                *)
(***************************************************************************)
EXTENDS Integers, Sequences, FiniteSets, TLC

\* ---------------------------------------------------------------- bounds
\* Number of lifecycle operations (initialize/start/stop/restart/update) called.
MaxOps == 3
\* Number of archive downloads begun.
MaxDownloads == 1
\* Chunks the HTTP body stream of one archive download yields.
NChunks == 1
\* The same, where the progress events of one download are followed.
StreamChunks == 3

\* fetch_latest_version calls made.
MaxFetches == 3
\* Times the system clock is looked at having advanced.
MaxTicks == 2

\* create_terminal calls made.
MaxTerminals == 3

\* Lines of the diff handed to group_into_hunks, and its context argument.
MaxLines == 7
MaxContext == 2

\* ------------------------------------------------------ program constants
\* const VERSION_CACHE_TTL_SECS: u64 = 12 * 60 * 60
VERSION_CACHE_TTL_SECS == 43200
\* mpsc::channel::<DownloadProgress>(32)
ChannelCapacity == 32
\* for attempt in 1..=50 (Windows exit poll of stop)
StopPollAttempts == 50
\* let max_retries = 30 (delete attempts of extract_zip_sync)
max_retries == 30
\* std::thread::sleep(Duration::from_millis(500)) between two delete attempts
RetryBackoffMillis == 500

\* Port values: 0 is the "auto" sentinel of ServiceConfig.port; a caller may
\* configure a fixed port; find_available_port yields an OS-assigned one.
ConfigPorts == {0, 4096}
EphemeralPorts == {49152}

\* ----------------------------------------------------------- ServiceStatus
Uninitialized == [type |-> "Uninitialized"]
Downloading(p) == [type |-> "Downloading", progress |-> p]
Ready == [type |-> "Ready"]
Starting == [type |-> "Starting"]
Running(p) == [type |-> "Running", port |-> p]
Stopped == [type |-> "Stopped"]
Error(m) == [type |-> "Error", message |-> m]

IsRunning(s) == s.type = "Running"
IsDownloading(s) == s.type = "Downloading"

\* platform.rs, get_platform_identifier: the release asset name of the
\* (OS, ARCH) pair, "none" for the `_ => None` arm.
get_platform_identifier(os, arch) ==
    CASE os = "windows" /\ arch = "x86_64" -> "windows-x64"
      [] os = "windows" /\ arch = "aarch64" -> "windows-arm64"
      [] os = "macos" /\ arch = "x86_64" -> "darwin-x64"
      [] os = "macos" /\ arch = "aarch64" -> "darwin-arm64"
      [] os = "linux" /\ arch = "x86_64" -> "linux-x64"
      [] os = "linux" /\ arch = "aarch64" -> "linux-arm64"
      [] OTHER -> "none"

\* The builds the model runs the service on: the supported pairs, and some
\* for which no release asset exists.
Platforms ==
    [os : {"windows", "macos", "linux", "freebsd"},
     arch : {"x86_64", "aarch64", "riscv64"}]

\* The build the lifecycle specifications run on.
HostPlatform(windows) ==
    [os |-> IF windows THEN "windows" ELSE "linux", arch |-> "x86_64"]

\* ServiceConfig::default()
DefaultConfig == [mode |-> "Local", port |-> 0, auto_start |-> TRUE]

\* Option<Child>: `some` tells Some from None; `alive` is what try_wait would
\* report (Ok(None) when TRUE); `port` is the --port the child was launched with.
NoChild == [some |-> FALSE, alive |-> FALSE, port |-> 0]
Child(p) == [some |-> TRUE, alive |-> TRUE, port |-> p]

\* DownloadProgress; total = 0 stands for None (no Content-Length).
Progress(d, t) ==
    [downloaded |-> d, total |-> t,
     percentage |-> IF t = 0 THEN 0 ELSE (d * 100) \div t]
NoProgress == [downloaded |-> 0, total |-> 0, percentage |-> 0]

\* No status (nothing delivered yet, nothing pending).
NoStatus == [type |-> "None"]

VARIABLES
    config,          \* RwLock<ServiceConfig>
    status,          \* RwLock<ServiceStatus>
    process,         \* RwLock<Option<Child>>
    appHandle,       \* RwLock<Option<AppHandle>>: TRUE when Some
    binaryInstalled, \* the file get_opencode_bin_path() exists
    appDataDir,      \* APP_DATA_DIR OnceLock is set
    isWindows,       \* cfg!(target_os = "windows")
    platform,        \* std::env::consts::{OS, ARCH}
    procLock,        \* the process write lock is held across a blocking wait
    life,            \* the lifecycle operation in flight (or the last one)
    reps,            \* progress-reporter tasks
    gs,              \* get_status caller
    att,             \* set_app_handle caller
    lastEv,          \* payload of the last status event delivered
    lastProgress,    \* last download-progress event delivered
    ord,             \* age ranks of the store writes still of interest
    ops,             \* lifecycle operations called so far
    ver,             \* version resolution: cache file, clock, caller
    info,            \* get_version_info: its inputs and its VersionInfo
    ext,             \* extract_binary_sync: the files it touches and its caller
    doc,             \* opencode.json, the companion configuration file, and its directory
    lk,              \* who holds and who waits for the four RwLocks of the service
    term,            \* TerminalManager.instances, the terminals created and their reader threads
    dh               \* group_into_hunks: its arguments, its locals and the hunks it returns

vars == <<config, status, process, appHandle, binaryInstalled, appDataDir,
          isWindows, procLock, life, reps, gs, att, lastEv,
          lastProgress, ord, ops, ver, info, platform,
          ext,
          doc,
          lk,
          term,
          dh>>

\* What the lifecycle operations of the service leave as it is. The
\* version resolution and the extraction inside download() are seen by
\* those operations through their outcome only (DownloadOutcomes,
\* download_extract); their own state is `ver` and `ext`. The companion
\* configuration file has no effect on the operation that writes it (a
\* failure is only logged); its content is `doc`, written by
\* start_config_file.
envVars == <<appDataDir, isWindows, platform, ver, info, ext, doc, lk, term, dh>>

\* The fields of the service and what its lifecycle operations keep.
svcVars == <<config, status, process, appHandle, binaryInstalled, appDataDir,
             isWindows, platform, procLock, life, reps, gs, att, lastEv,
             lastProgress, ord, ops>>

\* Locals of the lifecycle operation: op/ret name the operation and its
\* result; pend is the status update_status is about to emit, k/kret where
\* the operation goes after that emit; cfg, port, wasRunning, pid, attempt,
\* downloaded, total, cur are the locals of the same names in the code;
\* probe is what verify_remote_connection returned to the operation ("none"
\* while it has not been called).
IdleLife ==
    [op |-> "none", pc |-> "idle", ret |-> "none", cfg |-> DefaultConfig,
     pend |-> NoStatus, k |-> "idle", kret |-> "none", port |-> 0,
     wasRunning |-> FALSE, pid |-> FALSE, attempt |-> 0, downloaded |-> 0,
     total |-> 0, cur |-> NoStatus, probe |-> "none"]

IdleGs == [pc |-> "idle", cur |-> NoStatus, port |-> 0]

\* Option<VersionCache> as read_version_cache yields it: `some` tells a
\* readable version_cache.json from a missing or unparsable one.
NoCache == [some |-> FALSE, version |-> "none", timestamp |-> 0]
Cache(v, t) == [some |-> TRUE, version |-> v, timestamp |-> t]

\* tag_name values of the latest release.
Tags == {"v1", "v2"}

\* Option<String> None, for a version tag that is not known.
NoTag == <<"?">>

\* get_version_info before it is called.
NoInfo == [pc |-> "idle", installed |-> NoTag, latest |-> NoTag,
           update_available |-> FALSE]

\* Version resolution: the cache file and the system clock (seconds); the
\* caller of fetch_latest_version with the result of its last call (ret: a
\* tag or "DownloadError"), whether that call sent a request to the
\* release index (asked) and whether the index will ever answer it
\* (silent), the answer it got, and what get_installed_version returned to
\* it ("unread" when it was not called).
IdleVer ==
    [pc |-> "idle", cache |-> NoCache, now |-> 0, ret |-> "none",
     asked |-> FALSE, silent |-> FALSE, answer |-> "none", inst |-> "unread",
     calls |-> 0, ticks |-> 0]
IdleAtt == [pc |-> "idle", pend |-> NoStatus]

\* `ext` and `doc` in a specification that does not follow the extraction
\* or the companion file: the lifecycle operations see the first through
\* its outcome (download_extract) and the second not at all.
NoExt == [pc |-> "unfollowed"]
NoDoc == [resolved |-> -1]

\* `lk` in a specification that does not follow the locks one by one: its
\* actions take each lock acquisition as one atomic step.
NoLk == [op |-> "unfollowed"]

\* `term` in a specification that follows the opencode service only.
NoTerm == [map |-> <<>>, inst |-> <<>>]

\* `dh` in a specification in which no diff is computed.
NoDiff == [pc |-> "unfollowed"]

\* opencode.json in app_data_dir/opencode, as a document. file: "absent",
\* "unreadable" (read_to_string fails), "invalid" (not JSON) or "object" (a
\* JSON object). Of an object: server is "absent", "object" or "scalar"
\* (any value that is not an object); port and hostname are the members of
\* the server object (-1 / "absent" when missing); plugin is "absent",
\* "bridge" (the array with the file URL of the axon-bridge plugin) or
\* "user" (any other value); rest names all remaining members: "none",
\* "axon" ($schema, autoupdate, share as build_opencode_config writes them)
\* or "custom".
NoDocument ==
    [file |-> "absent", server |-> "absent", port |-> -1,
     hostname |-> "absent", plugin |-> "absent", rest |-> "none"]

\* The file with its surroundings: content is the document, writable tells
\* whether std::fs::write to the file succeeds, pluginInstalled whether
\* plugins/opencode/dist/index.js exists; resolved is the actual_port of
\* the latest start_local_service that came to the file (-1: none yet) and
\* was the document that start found.
NoConfigFile ==
    [content |-> NoDocument, writable |-> TRUE, pluginInstalled |-> FALSE,
     resolved |-> -1, was |-> NoDocument]

\* download() from download_file on, with the files of bin_dir it works
\* on: archive is archive_path ("none", "partial" or "complete"), dest is
\* the binary path ("none" when absent, "old" the binary of an earlier
\* install, "new" the binary of the archive, "partial" a file whose copy
\* broke off), old is TRUE when old_path (the sibling .old) exists.
\* chunks counts the chunks written; renamed, attempt and ret are the
\* locals and the result of extract_zip_sync / extract_binary_sync; removes
\* counts the remove_file calls on dest_path, slept sums the sleeps of the
\* retry loop, cleaner is the thread spawned to remove old_path; result is
\* what download() returns and failed the call of download_file that made
\* it return ("send", "error_for_status", "create", "stream", "write_all").
IdleExt ==
    [pc |-> "idle", archive |-> "none", chunks |-> 0, dest |-> "none",
     old |-> FALSE, renamed |-> FALSE, renameFailed |-> FALSE,
     attempt |-> 0, removes |-> 0, slept |-> 0, ret |-> "none",
     cleaner |-> FALSE, result |-> "none", failed |-> "none"]

\* Ghost order of the writes to `status`. A holder's rank is the age of the
\* write whose value it carries: 0 is the value now stored, a larger rank an
\* older write, -1 no value. Holders: the update_status in flight on the
\* lifecycle thread (life) and in each reporter (reps[i]), the status read
\* by set_app_handle (att), the last delivered event (ev), and the value
\* stored when the subscriber was attached (attach). Only the order of the
\* ranks matters, so they are kept compact.
NoOrd == [life |-> -1, att |-> -1, ev |-> -1, attach |-> -1, reps |-> <<>>]

Ranks(o) ==
    ({o.life, o.att, o.ev, o.attach} \cup {o.reps[i] : i \in DOMAIN o.reps})
        \ {-1}

Normalize(o) ==
    LET L == Ranks(o) \cup {0}
        R(x) == IF x = -1 THEN -1 ELSE Cardinality({y \in L : y < x})
    IN  [life |-> R(o.life), att |-> R(o.att), ev |-> R(o.ev),
         attach |-> R(o.attach),
         reps |-> [i \in DOMAIN o.reps |-> R(o.reps[i])]]

\* A new write: every value held so far is one write older.
Bump(o) ==
    LET B(x) == IF x = -1 THEN -1 ELSE x + 1
    IN  [life |-> B(o.life), att |-> B(o.att), ev |-> B(o.ev),
         attach |-> B(o.attach),
         reps |-> [i \in DOMAIN o.reps |-> B(o.reps[i])]]

\* OpencodeService::with_settings / Default
Init ==
    /\ config = DefaultConfig
    /\ status = Uninitialized
    /\ process = NoChild
    /\ appHandle = FALSE
    /\ binaryInstalled \in BOOLEAN
    /\ appDataDir \in BOOLEAN
    /\ (binaryInstalled => appDataDir)
    /\ isWindows \in BOOLEAN
    /\ platform = HostPlatform(isWindows)
    /\ procLock = FALSE
    /\ life = IdleLife
    /\ reps = <<>>
    /\ gs = IdleGs
    /\ att = IdleAtt
    /\ lastEv = NoStatus
    /\ lastProgress = NoProgress
    /\ ord = NoOrd
    /\ ops = 0
    /\ ver = IdleVer
    /\ info = NoInfo
    /\ dh = NoDiff
    /\ term = NoTerm
    /\ lk = NoLk
    /\ doc = NoDoc
    /\ ext = NoExt

\* ------------------------------------------------- update_status, emit_event
\* emit_event for EVENT_SERVICE_STATUS: delivered when a handle is set,
\* skipped (debug log only) otherwise.
EmitStatus(st) ==
    IF appHandle
    THEN lastEv' = st
    ELSE UNCHANGED lastEv

\* emit_event for EVENT_DOWNLOAD_PROGRESS.
EmitProgress(p) ==
    IF appHandle
    THEN lastProgress' = p
    ELSE UNCHANGED lastProgress

\* update_status, first half, on the lifecycle thread:
\* `*self.status.write() = status.clone()`; the value is kept for the emit
\* that follows. After the emit the operation continues at `next`, or
\* returns `r` when r is not "none".
LifeWriteFrom(l, s, next, r) ==
    /\ status' = s
    /\ ord' = Normalize([Bump(ord) EXCEPT !.life = 0])
    /\ life' = [l EXCEPT !.pc = "emit", !.k = next, !.kret = r, !.pend = s]

LifeWrite(s, next, r) == LifeWriteFrom(life, s, next, r)

\* The lifecycle operation returns `r` to its caller; its locals die.
Return(r) == [IdleLife EXCEPT !.op = life.op, !.ret = r,
                              !.wasRunning = life.wasRunning]

\* A caller invokes lifecycle operation `name` (one at a time per instance).
Call(name, first) == [IdleLife EXCEPT !.op = name, !.pc = first]

CanCall == life.pc = "idle" /\ ops < MaxOps

\* An operation that downloads is called while downloads are left.
CanDownload == Len(reps) < MaxDownloads

\* update_status, second half: emit_event(EVENT_SERVICE_STATUS, &status).
update_status_emit ==
    /\ life.pc = "emit"
    /\ EmitStatus(life.pend)
    /\ ord' = Normalize([ord EXCEPT !.life = -1,
                                    !.ev = IF appHandle THEN ord.life ELSE @])
    /\ life' = IF life.kret # "none"
               THEN Return(life.kret)
               ELSE [life EXCEPT !.pc = life.k, !.pend = NoStatus,
                                 !.k = "idle"]
    /\ UNCHANGED <<config, status, process, appHandle, binaryInstalled,
                   envVars, procLock, reps, gs, att, lastProgress, ops>>

\* ------------------------------------------------------------- initialize
\* initialize: get_config, then in local mode downloader.is_installed().
initialize ==
    /\ CanCall
    /\ (config.mode = "Local" /\ ~binaryInstalled) => CanDownload
    /\ ops' = ops + 1
    /\ life' = [Call("initialize",
                     IF config.mode = "Local" /\ ~binaryInstalled
                     THEN "init_downloading" ELSE "init_ready")
                    EXCEPT !.cfg = config]
    /\ UNCHANGED <<config, status, process, appHandle, binaryInstalled,
                   envVars, procLock, reps, gs, att, lastEv, lastProgress,
                   ord>>

\* self.update_status(ServiceStatus::Downloading { progress: 0.0 })
initialize_downloading ==
    /\ life.pc = "init_downloading"
    /\ LifeWrite(Downloading(0), "dl_begin", "none")
    /\ UNCHANGED <<config, process, appHandle, binaryInstalled, envVars,
                   procLock, reps, gs, att, lastEv, lastProgress, ops>>

\* An initialize that leaves a stored Running status as it is.
initialize_ready_keep_running ==
    /\ life.pc = "init_ready"
    /\ IF IsRunning(status)
       THEN /\ life' = Return("Ok")
            /\ UNCHANGED <<status, ord>>
       ELSE LifeWrite(Ready, "idle", "Ok")
    /\ UNCHANGED <<config, process, appHandle, binaryInstalled, envVars,
                   procLock, reps, gs, att, lastEv, lastProgress, ops>>

\* self.update_status(ServiceStatus::Ready); Ok(())  (both modes)
initialize_ready ==
    /\ life.pc = "init_ready"
    /\ LifeWrite(Ready, "idle", "Ok")
    /\ UNCHANGED <<config, process, appHandle, binaryInstalled, envVars,
                   procLock, reps, gs, att, lastEv, lastProgress, ops>>

\* ---------------------------------------- downloader.download(None, Some(tx))
\* The sender half is dropped: the reporter of this download sees the
\* channel closed once it has taken what is queued.
CloseChannel == [reps EXCEPT ![Len(reps)].open = FALSE]

NewReporter == [chan |-> <<>>, open |-> TRUE, pc |-> "recv",
                cur |-> NoProgress]

\* What download() can come to before the body is streamed, in the order
\* of the code: fetch_latest_version fails; build_download_url is None
\* (DownloadError("Unsupported platform")); get_bin_dir() is None; the GET
\* fails or error_for_status rejects the response; or the response is
\* accepted.
build_download_url == get_platform_identifier(platform.os, platform.arch)

DownloadOutcomes ==
    {"fetch_failed"} \cup
    (IF build_download_url = "none" THEN {"unsupported"}
     ELSE IF appDataDir THEN {"http_error", "ok"} ELSE {"no_bin_dir"})

DownloadErrorOf(outcome) ==
    IF outcome = "no_bin_dir" THEN "ConfigError" ELSE "DownloadError"

\* mpsc::channel(32), tokio::spawn(reporter), then download() up to the
\* response of download_file. response.content_length() may be None (0).
\* The body stream will yield n chunks.
download_begin_of(n) ==
    /\ life.pc = "dl_begin"
    /\ \E outcome \in DownloadOutcomes :
         IF outcome = "ok"
         THEN /\ reps' = Append(reps, NewReporter)
              /\ \E total \in {0, n} :
                   life' = [life EXCEPT !.pc = "dl_chunk", !.downloaded = 0,
                                        !.total = total]
         ELSE /\ reps' = Append(reps, [NewReporter EXCEPT !.open = FALSE])
              /\ life' = Return(DownloadErrorOf(outcome))
    /\ ord' = [ord EXCEPT !.reps = Append(@, -1)]
    /\ UNCHANGED <<config, status, process, appHandle, binaryInstalled,
                   envVars, procLock, gs, att, lastEv, lastProgress, ops>>

\* download_file, one turn of `while let Some(chunk) = stream.next().await`:
\* the chunk is written, `downloaded` grows, the progress is sent on the
\* bounded channel (send waits while the channel is full); or the stream
\* yields an error; or it ends and download_file returns, dropping tx.
download_chunk_of(n) ==
    /\ life.pc = "dl_chunk"
    /\ \/ /\ life.downloaded < n
          /\ Len(reps[Len(reps)].chan) < ChannelCapacity
          /\ life' = [life EXCEPT !.downloaded = life.downloaded + 1]
          /\ reps' = [reps EXCEPT ![Len(reps)].chan =
                        Append(@, Progress(life.downloaded + 1, life.total))]
       \/ /\ life.downloaded < n
          /\ life' = Return("DownloadError")
          /\ reps' = CloseChannel
       \/ /\ life.downloaded = n
          /\ life' = [life EXCEPT !.pc = "dl_extract"]
          /\ reps' = CloseChannel
    /\ UNCHANGED <<config, status, process, appHandle, binaryInstalled,
                   envVars, procLock, gs, att, lastEv, lastProgress, ops,
                   ord>>

download_begin == download_begin_of(NChunks)

download_chunk == download_chunk_of(NChunks)

\* A download whose body arrives in several chunks.
download_begin_long == download_begin_of(StreamChunks)

download_chunk_long == download_chunk_of(StreamChunks)

\* spawn_blocking(extract_binary_sync), archive removal, chmod. On success
\* the binary is at its path. On failure the destination is as before,
\* except on Windows, where extract_zip_sync may already have renamed the
\* old binary away before File::create / io::copy failed.
download_extract ==
    /\ life.pc = "dl_extract"
    /\ \/ /\ binaryInstalled' = TRUE
          /\ life' = [life EXCEPT !.pc = IF life.op = "initialize"
                                         THEN "init_ready" ELSE "upd_ready",
                                  !.downloaded = 0, !.total = 0]
       \/ /\ binaryInstalled' \in
                IF isWindows THEN {binaryInstalled, FALSE} ELSE {binaryInstalled}
          /\ life' = Return("ExtractError")
    /\ UNCHANGED <<config, status, process, appHandle, envVars, procLock,
                   reps, gs, att, lastEv, lastProgress, ops, ord>>

\* ------------------------------------------------- progress-reporter task
\* `while let Some(progress) = progress_rx.recv().await`, then
\* self_clone.emit_download_progress(&progress). recv touches only the
\* channel; the emit reads app_handle. On an empty channel recv waits, and
\* with the sender dropped it yields None: the task has ended.
reporter_recv_lifo(i) ==
    /\ reps[i].pc = "recv"
    /\ reps[i].chan # <<>>
    /\ LET n == Len(reps[i].chan)
       IN  /\ reps' = [reps EXCEPT ![i].cur = reps[i].chan[n],
                                   ![i].chan = SubSeq(reps[i].chan, 1, n - 1),
                                   ![i].pc = "status"]
           /\ EmitProgress(reps[i].chan[n])
    /\ UNCHANGED <<config, status, process, appHandle, binaryInstalled,
                   envVars, procLock, life, gs, att, lastEv, ops, ord>>

reporter_recv(i) ==
    /\ reps[i].pc = "recv"
    /\ reps[i].chan # <<>>
    /\ reps' = [reps EXCEPT ![i].cur = Head(reps[i].chan),
                            ![i].chan = Tail(reps[i].chan),
                            ![i].pc = "status"]
    /\ EmitProgress(Head(reps[i].chan))
    /\ UNCHANGED <<config, status, process, appHandle, binaryInstalled,
                   envVars, procLock, life, gs, att, lastEv, ops, ord>>

\* self_clone.update_status(Downloading { progress: progress.percentage }),
\* first half: the store write.
reporter_update_status(i) ==
    /\ reps[i].pc = "status"
    /\ status' = Downloading(reps[i].cur.percentage)
    /\ ord' = Normalize([Bump(ord) EXCEPT !.reps[i] = 0])
    /\ reps' = [reps EXCEPT ![i].pc = "emit"]
    /\ UNCHANGED <<config, process, appHandle, binaryInstalled, envVars,
                   procLock, life, gs, att, lastEv, lastProgress, ops>>

\* ... second half: the emit.
reporter_emit_status(i) ==
    /\ reps[i].pc = "emit"
    /\ EmitStatus(Downloading(reps[i].cur.percentage))
    /\ ord' = Normalize([ord EXCEPT !.reps[i] = -1,
                                    !.ev = IF appHandle THEN ord.reps[i] ELSE @])
    /\ reps' = [reps EXCEPT ![i].pc = "recv", ![i].cur = NoProgress]
    /\ UNCHANGED <<config, status, process, appHandle, binaryInstalled,
                   envVars, procLock, life, gs, att, lastProgress, ops>>

\* Reporter i has taken everything sent and its sender is dropped.
ReporterDone(i) ==
    reps[i].pc = "recv" /\ reps[i].chan = <<>> /\ ~reps[i].open

AllReportersDone == \A i \in 1..Len(reps) : ReporterDone(i)

\* ------------------------------------------------------------------ start
\* The result start() hands to its caller: update_opencode only logs a
\* failed restart and returns Ok(()).
StartResult(r) == IF life.op = "update" THEN "Ok" ELSE r

\* A caller invokes start().
start ==
    /\ CanCall
    /\ ops' = ops + 1
    /\ life' = Call("start", "start_begin")
    /\ UNCHANGED <<config, status, process, appHandle, binaryInstalled,
                   envVars, procLock, reps, gs, att, lastEv, lastProgress,
                   ord>>

\* find_available_port: the port the OS assigned to a throwaway listener,
\* or -1 for the Err of a failed bind / local_addr.
find_available_port == EphemeralPorts \cup {-1}

\* A start that refuses to run while the stored status is Error.
start_begin_unless_error ==
    /\ life.pc = "start_begin"
    /\ IF status.type = "Error"
       THEN life' = Return(StartResult("ServiceStartError"))
       ELSE IF config.mode = "Local"
       THEN \E p \in IF config.port = 0 THEN find_available_port
                                        ELSE {config.port} :
              life' = IF p = -1
                        THEN Return(StartResult("ServiceStartError"))
                      ELSE IF ~(appDataDir /\ binaryInstalled)
                        THEN Return(StartResult("BinaryNotFound"))
                      ELSE [life EXCEPT !.cfg = config, !.port = p,
                                        !.pc = "start_starting"]
       ELSE life' = [life EXCEPT !.cfg = config, !.pc = "start_remote"]
    /\ UNCHANGED <<config, status, process, appHandle, binaryInstalled,
                   envVars, procLock, reps, gs, att, lastEv, lastProgress,
                   ops, ord>>

\* A start that announces Starting before it has looked for the binary.
start_begin_announce_first ==
    /\ life.pc = "start_begin"
    /\ IF config.mode = "Local"
       THEN \E p \in IF config.port = 0 THEN find_available_port
                                        ELSE {config.port} :
              life' = IF p = -1
                        THEN Return(StartResult("ServiceStartError"))
                      ELSE [life EXCEPT !.cfg = config, !.port = p,
                                        !.pc = "start_starting"]
       ELSE life' = [life EXCEPT !.cfg = config, !.pc = "start_remote"]
    /\ UNCHANGED <<config, status, process, appHandle, binaryInstalled,
                   envVars, procLock, reps, gs, att, lastEv, lastProgress,
                   ops, ord>>

\* start: get_config; local mode enters start_local_service: resolve the
\* port (find_available_port when the configured port is 0), then
\* downloader.get_binary_path().ok_or(BinaryNotFound)?.
start_begin ==
    /\ life.pc = "start_begin"
    /\ IF config.mode = "Local"
       THEN \E p \in IF config.port = 0 THEN find_available_port
                                        ELSE {config.port} :
              life' = IF p = -1
                        THEN Return(StartResult("ServiceStartError"))
                      ELSE IF ~(appDataDir /\ binaryInstalled)
                        THEN Return(StartResult("BinaryNotFound"))
                      ELSE [life EXCEPT !.cfg = config, !.port = p,
                                        !.pc = "start_starting"]
       ELSE life' = [life EXCEPT !.cfg = config, !.pc = "start_remote"]
    /\ UNCHANGED <<config, status, process, appHandle, binaryInstalled,
                   envVars, procLock, reps, gs, att, lastEv, lastProgress,
                   ops, ord>>

\* self.update_status(ServiceStatus::Starting)
start_starting ==
    /\ life.pc = "start_starting"
    /\ LifeWrite(Starting, "start_spawn", "none")
    /\ UNCHANGED <<config, process, appHandle, binaryInstalled, envVars,
                   procLock, reps, gs, att, lastEv, lastProgress, ops>>

\* get_app_data_dir().ok_or(ConfigError)?, the companion config file, then
\* cmd.spawn().map_err(ServiceStartError)? and `*self.process.write() =
\* Some(child)`. Both `?` return with the status left as it is.
start_spawn ==
    /\ life.pc = "start_spawn"
    /\ ~procLock
    /\ IF ~appDataDir
       THEN /\ life' = Return(StartResult("ConfigError"))
            /\ UNCHANGED process
       ELSE \/ /\ process' = Child(life.port)
               /\ life' = [life EXCEPT !.pc = "start_check"]
            \/ /\ life' = Return(StartResult("ServiceStartError"))
               /\ UNCHANGED process
    /\ UNCHANGED <<config, status, appHandle, binaryInstalled, envVars,
                   procLock, reps, gs, att, lastEv, lastProgress, ops, ord>>

\* is_process_running: child.try_wait() under the process write lock;
\* Ok(None) is the only answer that counts as running.
is_process_running == process.some /\ process.alive

\* start without the liveness check: Running whatever became of the child.
start_check_skipped ==
    /\ life.pc = "start_check"
    /\ ~procLock
    /\ life' = [life EXCEPT !.pc = "start_running"]
    /\ UNCHANGED <<config, status, process, appHandle, binaryInstalled,
                   envVars, procLock, reps, gs, att, lastEv, lastProgress,
                   ops, ord>>

\* sleep(500ms), then `if self.is_process_running()`.
start_check ==
    /\ life.pc = "start_check"
    /\ ~procLock
    /\ life' = [life EXCEPT !.pc = IF is_process_running
                                   THEN "start_running" ELSE "start_error"]
    /\ UNCHANGED <<config, status, process, appHandle, binaryInstalled,
                   envVars, procLock, reps, gs, att, lastEv, lastProgress,
                   ops, ord>>

\* self.update_status(Running { port: actual_port }); Ok(())
start_running ==
    /\ life.pc = "start_running"
    /\ LifeWrite(Running(life.port), "idle", "Ok")
    /\ UNCHANGED <<config, process, appHandle, binaryInstalled, envVars,
                   procLock, reps, gs, att, lastEv, lastProgress, ops>>

\* self.update_status(Error { message }); Err(ServiceStartError)
start_error ==
    /\ life.pc = "start_error"
    /\ LifeWrite(Error("start_failed"), "idle", StartResult("ServiceStartError"))
    /\ UNCHANGED <<config, process, appHandle, binaryInstalled, envVars,
                   procLock, reps, gs, att, lastEv, lastProgress, ops>>

\* What verify_remote_connection can come to: the GET of {url}/health is
\* answered with a success status (Ok), with another status, or send()
\* fails; the last two are Err(ConnectionError).
ProbeOutcomes == {"success", "status", "unreachable"}

verify_remote_connection(outcome) ==
    IF outcome = "success" THEN "Ok" ELSE "ConnectionError"

\* A remote start that writes Running whatever the probe returned.
start_remote_unverified ==
    /\ life.pc = "start_remote"
    /\ \E outcome \in ProbeOutcomes :
         LifeWriteFrom([life EXCEPT !.probe =
                                      verify_remote_connection(outcome)],
                       Running(life.cfg.port), "idle", "Ok")
    /\ UNCHANGED <<config, process, appHandle, binaryInstalled, envVars,
                   procLock, reps, gs, att, lastEv, lastProgress, ops>>

\* Remote mode: verify_remote_connection(&url).await?, then
\* self.update_status(Running { port: config.port }).
start_remote ==
    /\ life.pc = "start_remote"
    /\ \E outcome \in ProbeOutcomes :
         LET r == verify_remote_connection(outcome) IN
         IF r = "Ok"
         THEN LifeWriteFrom([life EXCEPT !.probe = r],
                            Running(life.cfg.port), "idle", "Ok")
         ELSE /\ life' = Return(StartResult(r))
              /\ UNCHANGED <<status, ord>>
    /\ UNCHANGED <<config, process, appHandle, binaryInstalled, envVars,
                   procLock, reps, gs, att, lastEv, lastProgress, ops>>

\* The child process exits on its own (crash, normal exit).
child_exit ==
    /\ process.some /\ process.alive
    /\ process' = [process EXCEPT !.alive = FALSE]
    /\ UNCHANGED <<config, status, appHandle, binaryInstalled, envVars,
                   procLock, life, reps, gs, att, lastEv, lastProgress, ops,
                   ord>>

\* ------------------------------------------------------------------- stop
\* A caller invokes stop().
stop ==
    /\ CanCall
    /\ ops' = ops + 1
    /\ life' = Call("stop", "stop_read")
    /\ UNCHANGED <<config, status, process, appHandle, binaryInstalled,
                   envVars, procLock, reps, gs, att, lastEv, lastProgress,
                   ord>>

\* `let pid_to_kill = { self.process.read().as_ref().map(|c| c.id()) }`
stop_read ==
    /\ life.pc = "stop_read"
    /\ ~procLock
    /\ life' = [life EXCEPT !.pid = process.some,
                            !.pc = IF ~process.some THEN "stop_clear"
                                   ELSE IF isWindows THEN "stop_taskkill"
                                   ELSE "stop_kill"]
    /\ UNCHANGED <<config, status, process, appHandle, binaryInstalled,
                   envVars, procLock, reps, gs, att, lastEv, lastProgress,
                   ops, ord>>

\* cfg(not windows): under the process write lock, child.kill() (an Err is
\* only logged) and then child.wait(). Either the child is dead and wait
\* returns at once, or the child is still alive (kill returned Err, or the
\* signal has not ended it) and wait blocks, the lock still held.
stop_kill ==
    /\ life.pc = "stop_kill"
    /\ ~procLock
    /\ \/ /\ process' = [process EXCEPT !.alive = FALSE]
          /\ life' = [life EXCEPT !.pc = "stop_clear"]
          /\ UNCHANGED procLock
       \/ /\ process.alive
          /\ procLock' = TRUE
          /\ life' = [life EXCEPT !.pc = "stop_wait"]
          /\ UNCHANGED process
    /\ UNCHANGED <<config, status, appHandle, binaryInstalled, envVars, reps,
                   gs, att, lastEv, lastProgress, ops, ord>>

\* child.wait() returns once the child has exited; the guard is dropped.
stop_wait ==
    /\ life.pc = "stop_wait"
    /\ ~process.alive
    /\ procLock' = FALSE
    /\ life' = [life EXCEPT !.pc = "stop_clear"]
    /\ UNCHANGED <<config, status, process, appHandle, binaryInstalled,
                   envVars, reps, gs, att, lastEv, lastProgress, ops, ord>>

\* cfg(windows): `taskkill /F /T /PID pid`; a failure is only logged.
stop_taskkill ==
    /\ life.pc = "stop_taskkill"
    /\ \/ process' = [process EXCEPT !.alive = FALSE]
       \/ UNCHANGED process
    /\ life' = [life EXCEPT !.pc = "stop_poll", !.attempt = 1]
    /\ UNCHANGED <<config, status, appHandle, binaryInstalled, envVars,
                   procLock, reps, gs, att, lastEv, lastProgress, ops, ord>>

\* cfg(windows): one turn of `for attempt in 1..=50`: try_wait under the
\* process write lock; break when the child has exited, else sleep 100 ms
\* with the lock released. After the loop the state is looked at once more
\* (a warning only).
stop_poll ==
    /\ life.pc = "stop_poll"
    /\ ~procLock
    /\ life' = IF ~is_process_running \/ life.attempt = StopPollAttempts
               THEN [life EXCEPT !.pc = "stop_clear", !.attempt = 0]
               ELSE [life EXCEPT !.attempt = life.attempt + 1]
    /\ UNCHANGED <<config, status, process, appHandle, binaryInstalled,
                   envVars, procLock, reps, gs, att, lastEv, lastProgress,
                   ops, ord>>

\* stop without `*self.process.write() = None`: the handle is kept.
stop_clear_kept ==
    /\ life.pc = "stop_clear"
    /\ ~procLock
    /\ life' = [life EXCEPT !.pc = "stop_stopped"]
    /\ UNCHANGED <<config, status, process, appHandle, binaryInstalled,
                   envVars, procLock, reps, gs, att, lastEv, lastProgress,
                   ops, ord>>

\* `*self.process.write() = None`
stop_clear ==
    /\ life.pc = "stop_clear"
    /\ ~procLock
    /\ process' = NoChild
    /\ life' = [life EXCEPT !.pc = "stop_stopped"]
    /\ UNCHANGED <<config, status, appHandle, binaryInstalled, envVars,
                   procLock, reps, gs, att, lastEv, lastProgress, ops, ord>>

\* self.update_status(ServiceStatus::Stopped); Ok(()). restart goes on to
\* sleep(100ms) and start(); update_opencode to its sleep and the download.
stop_stopped ==
    /\ life.pc = "stop_stopped"
    /\ CASE life.op = "stop" -> LifeWrite(Stopped, "idle", "Ok")
         [] life.op = "restart" -> LifeWrite(Stopped, "start_begin", "none")
         [] OTHER -> LifeWrite(Stopped, "dl_begin", "none")
    /\ UNCHANGED <<config, process, appHandle, binaryInstalled, envVars,
                   procLock, reps, gs, att, lastEv, lastProgress, ops>>

\* A restart that goes to start without stopping first.
restart_without_stop ==
    /\ CanCall
    /\ ops' = ops + 1
    /\ life' = Call("restart", "start_begin")
    /\ UNCHANGED <<config, status, process, appHandle, binaryInstalled,
                   envVars, procLock, reps, gs, att, lastEv, lastProgress,
                   ord>>

\* A caller invokes restart(): stop().await?, sleep, start().await.
restart ==
    /\ CanCall
    /\ ops' = ops + 1
    /\ life' = Call("restart", "stop_read")
    /\ UNCHANGED <<config, status, process, appHandle, binaryInstalled,
                   envVars, procLock, reps, gs, att, lastEv, lastProgress,
                   ord>>

\* ------------------------------------------------------------- get_status
\* matches!(current_status, Uninitialized | Ready | Stopped)
Correctable(s) == s.type \in {"Uninitialized", "Ready", "Stopped"}

\* A caller invokes get_status(): `self.status.read().clone()`. Outside the
\* three correctable states the value read is returned at once and nothing
\* is touched: that call is a stuttering step.
get_status ==
    /\ gs.pc = "idle"
    /\ Correctable(status)
    /\ gs' = [gs EXCEPT !.cur = status, !.pc = "proc"]
    /\ UNCHANGED <<config, status, process, appHandle, binaryInstalled,
                   envVars, procLock, life, reps, att, lastEv, lastProgress,
                   ops, ord>>

\* `if self.is_process_running()`
get_status_proc ==
    /\ gs.pc = "proc"
    /\ ~procLock
    /\ gs' = IF is_process_running THEN [gs EXCEPT !.pc = "port_status"]
                                   ELSE IdleGs
    /\ UNCHANGED <<config, status, process, appHandle, binaryInstalled,
                   envVars, procLock, life, reps, att, lastEv, lastProgress,
                   ops, ord>>

\* detect_running_port, first read: the port of a stored Running status.
get_status_port_status ==
    /\ gs.pc = "port_status"
    /\ gs' = IF IsRunning(status)
             THEN [gs EXCEPT !.port = status.port, !.pc = "write"]
             ELSE [gs EXCEPT !.pc = "port_config"]
    /\ UNCHANGED <<config, status, process, appHandle, binaryInstalled,
                   envVars, procLock, life, reps, att, lastEv, lastProgress,
                   ops, ord>>

\* detect_running_port falling back to a default port when the configured
\* port is dynamic.
get_status_port_config_guess ==
    /\ gs.pc = "port_config"
    /\ gs' = [gs EXCEPT !.port = IF config.port # 0 THEN config.port
                                  ELSE 4096,
                        !.pc = "write"]
    /\ UNCHANGED <<config, status, process, appHandle, binaryInstalled,
                   envVars, procLock, life, reps, att, lastEv, lastProgress,
                   ops, ord>>

\* detect_running_port, second read: a fixed configured port, or None when
\* the port is dynamic (0); then the stored status is left alone.
get_status_port_config ==
    /\ gs.pc = "port_config"
    /\ gs' = IF config.port # 0
             THEN [gs EXCEPT !.port = config.port, !.pc = "write"]
             ELSE IdleGs
    /\ UNCHANGED <<config, status, process, appHandle, binaryInstalled,
                   envVars, procLock, life, reps, att, lastEv, lastProgress,
                   ops, ord>>

\* `*self.status.write() = corrected_status.clone(); return corrected_status`
get_status_write ==
    /\ gs.pc = "write"
    /\ status' = Running(gs.port)
    /\ ord' = Normalize(Bump(ord))
    /\ gs' = IdleGs
    /\ UNCHANGED <<config, process, appHandle, binaryInstalled, envVars,
                   procLock, life, reps, att, lastEv, lastProgress, ops>>

\* --------------------------------------------------------- update_opencode
\* A caller invokes update_opencode(). It opens with
\* `was_running = matches!(self.get_status(), Running { .. })`: the first
\* read of get_status.
update_opencode ==
    /\ CanCall
    /\ CanDownload
    /\ ops' = ops + 1
    /\ life' = IF Correctable(status)
               THEN [Call("update", "upd_proc") EXCEPT !.cur = status]
               ELSE [Call("update", "stop_read")
                       EXCEPT !.wasRunning = IsRunning(status)]
    /\ UNCHANGED <<config, status, process, appHandle, binaryInstalled,
                   envVars, procLock, reps, gs, att, lastEv, lastProgress,
                   ord>>

\* get_status inside update_opencode: `if self.is_process_running()`.
\* Without a live child the value read first (not Running) is returned.
update_proc ==
    /\ life.pc = "upd_proc"
    /\ ~procLock
    /\ life' = [life EXCEPT !.pc = IF is_process_running
                                   THEN "upd_port_status" ELSE "stop_read"]
    /\ UNCHANGED <<config, status, process, appHandle, binaryInstalled,
                   envVars, procLock, reps, gs, att, lastEv, lastProgress,
                   ops, ord>>

\* detect_running_port, first read.
update_port_status ==
    /\ life.pc = "upd_port_status"
    /\ life' = IF IsRunning(status)
               THEN [life EXCEPT !.port = status.port, !.pc = "upd_write"]
               ELSE [life EXCEPT !.pc = "upd_port_config"]
    /\ UNCHANGED <<config, status, process, appHandle, binaryInstalled,
                   envVars, procLock, reps, gs, att, lastEv, lastProgress,
                   ops, ord>>

\* detect_running_port, second read.
update_port_config ==
    /\ life.pc = "upd_port_config"
    /\ life' = IF config.port # 0
               THEN [life EXCEPT !.port = config.port, !.pc = "upd_write"]
               ELSE [life EXCEPT !.pc = "stop_read"]
    /\ UNCHANGED <<config, status, process, appHandle, binaryInstalled,
                   envVars, procLock, reps, gs, att, lastEv, lastProgress,
                   ops, ord>>

\* get_status corrects the stored status and returns Running: was_running.
update_write ==
    /\ life.pc = "upd_write"
    /\ status' = Running(life.port)
    /\ ord' = Normalize(Bump(ord))
    /\ life' = [life EXCEPT !.wasRunning = TRUE, !.port = 0,
                            !.pc = "stop_read"]
    /\ UNCHANGED <<config, process, appHandle, binaryInstalled, envVars,
                   procLock, reps, gs, att, lastEv, lastProgress, ops>>

\* After the download (and the best-effort set_installed_version):
\* self.update_status(Ready); then `if was_running { self.start() }`,
\* else Ok(()).
update_ready ==
    /\ life.pc = "upd_ready"
    /\ IF life.wasRunning
       THEN LifeWrite(Ready, "start_begin", "none")
       ELSE LifeWrite(Ready, "idle", "Ok")
    /\ UNCHANGED <<config, process, appHandle, binaryInstalled, envVars,
                   procLock, reps, gs, att, lastEv, lastProgress, ops>>

\* --------------------------------------------------------- set_app_handle
\* `*self.app_handle.write() = Some(handle)`. The application attaches its
\* handle once, in setup (lib.rs).
set_app_handle ==
    /\ att.pc = "idle"
    /\ ~appHandle
    /\ appHandle' = TRUE
    /\ ord' = [ord EXCEPT !.attach = 0]
    /\ att' = [att EXCEPT !.pc = "read"]
    /\ UNCHANGED <<config, status, process, binaryInstalled, envVars,
                   procLock, life, reps, gs, lastEv, lastProgress, ops>>

\* `let status = self.status.read().clone()`
set_app_handle_read ==
    /\ att.pc = "read"
    /\ att' = [att EXCEPT !.pc = "emit", !.pend = status]
    /\ ord' = [ord EXCEPT !.att = 0]
    /\ UNCHANGED <<config, status, process, appHandle, binaryInstalled,
                   envVars, procLock, life, reps, gs, lastEv, lastProgress,
                   ops>>

\* `self.emit_event(EVENT_SERVICE_STATUS, &status)`
set_app_handle_emit ==
    /\ att.pc = "emit"
    /\ EmitStatus(att.pend)
    /\ ord' = Normalize([ord EXCEPT !.att = -1, !.ev = ord.att])
    /\ att' = IdleAtt
    /\ UNCHANGED <<config, status, process, appHandle, binaryInstalled,
                   envVars, procLock, life, reps, gs, lastProgress, ops>>

\* ------------------------------------------------- set_config, set_mode
\* The configurations a caller passes to set_config.
ConfigInputs == [mode : {"Local", "Remote"}, port : ConfigPorts,
                 auto_start : {TRUE}]

\* The configuration is read by initialize and start as their first step
\* and by detect_running_port; a write commutes with every other step, so
\* the callers of set_config / set_mode are scheduled next to those reads.
ConfigReadPending ==
    \/ life.pc \in {"idle", "start_begin", "upd_port_config"}
    \/ gs.pc = "port_config"

\* `*self.config.write() = config`, the caller's config drawn from `inputs`.
set_config_of(inputs) ==
    /\ ConfigReadPending
    /\ \E c \in inputs \ {config} : config' = c
    /\ UNCHANGED <<status, process, appHandle, binaryInstalled, envVars,
                   procLock, life, reps, gs, att, lastEv, lastProgress, ops,
                   ord>>

set_config == set_config_of(ConfigInputs)

\* The same with the auto_start flag of the caller's config either way.
AutoStartInputs == [mode : {"Local", "Remote"}, port : ConfigPorts,
                    auto_start : BOOLEAN]

set_config_auto_start == set_config_of(AutoStartInputs)

\* `self.config.write().mode = mode`
set_mode ==
    /\ ConfigReadPending
    /\ \E m \in {"Local", "Remote"} \ {config.mode} :
         config' = [config EXCEPT !.mode = m]
    /\ UNCHANGED <<status, process, appHandle, binaryInstalled, envVars,
                   procLock, life, reps, gs, att, lastEv, lastProgress, ops,
                   ord>>

\* ------------------------------------------------------------ get_endpoint
\* Option<String>: None, or Some(url).
NoEndpoint == [some |-> FALSE, url |-> <<>>]
SomeEndpoint(u) == [some |-> TRUE, url |-> u]

\* format!("http://127.0.0.1:{}", port)
LocalUrl(port) == <<"http://127.0.0.1:", port>>

\* The url carried by ServiceMode::Remote { url }; the configuration of the
\* model keeps one remote server, so its url is one value.
RemoteUrl == <<"remote.url">>

\* A get_endpoint that builds the local url from the configured port.
get_endpoint_configured_port ==
    IF ~IsRunning(status) THEN NoEndpoint
    ELSE IF config.mode = "Remote" THEN SomeEndpoint(RemoteUrl)
    ELSE SomeEndpoint(LocalUrl(config.port))

\* get_endpoint: the config read guard is taken first and kept until the
\* return, the status read guard second; the match is on the mode and the
\* status held at the moment of that second read, so the value returned is
\* a function of the configuration and the status stored at that moment.
get_endpoint ==
    IF ~IsRunning(status) THEN NoEndpoint
    ELSE IF config.mode = "Remote" THEN SomeEndpoint(RemoteUrl)
    ELSE SomeEndpoint(LocalUrl(status.port))

\* ------------------------------------------------------ the four RwLocks
\* Each operation as the sequence of its lock acquisitions and releases, in
\* the order of the code. A guard that is a temporary is released at the
\* end of its statement; a guard bound by `let` is released at the end of
\* its block. Where the code branches, the sequence is that of the path
\* that takes every lock; on the other paths the operation returns at a
\* point where it holds nothing.
Acq(l, m) == [a |-> "acq", l |-> l, m |-> m]
Rel(l) == [a |-> "rel", l |-> l, m |-> "-"]

\* One lock taken and released with nothing else taken in between.
Section(l, m) == <<Acq(l, m), Rel(l)>>

\* emit_event: `if let Some(handle) = self.app_handle.read().as_ref()`,
\* the guard alive during handle.emit.
emit_event_locks == Section("app_handle", "R")

\* update_status: `*self.status.write() = status.clone()`, then emit_event.
update_status_locks == Section("status", "W") \o emit_event_locks

\* is_process_running: `let mut process = self.process.write()`.
is_process_running_locks == Section("process", "W")

\* A detect_running_port that keeps the status guard while it reads the
\* configuration.
detect_running_port_locks_nested ==
    <<Acq("status", "R"), Acq("config", "R"), Rel("config"), Rel("status")>>

\* detect_running_port: `if let Running { port } = *self.status.read()`,
\* then `self.config.read().port`.
detect_running_port_locks == Section("status", "R") \o Section("config", "R")

\* get_status: status.read().clone(), is_process_running,
\* detect_running_port, `*self.status.write() = corrected_status`.
get_status_locks ==
    Section("status", "R") \o is_process_running_locks
        \o detect_running_port_locks \o Section("status", "W")

\* get_endpoint: `let config = self.config.read(); let status =
\* self.status.read();` both guards alive to the end, dropped in reverse.
get_endpoint_locks ==
    <<Acq("config", "R"), Acq("status", "R"), Rel("status"), Rel("config")>>

get_config_locks == Section("config", "R")

set_config_locks == Section("config", "W")

set_mode_locks == Section("config", "W")

\* set_app_handle: `*self.app_handle.write() = Some(handle)`,
\* `self.status.read().clone()`, emit_event.
set_app_handle_locks ==
    Section("app_handle", "W") \o Section("status", "R") \o emit_event_locks

\* One turn of the reporter task: emit_download_progress (emit_event), then
\* update_status.
reporter_locks == emit_event_locks \o update_status_locks

\* initialize: get_config, update_status(Downloading), the download (which
\* takes none of the four locks), update_status(Ready).
initialize_locks ==
    get_config_locks \o update_status_locks \o update_status_locks

\* start in local mode: get_config, update_status(Starting),
\* `*self.process.write() = Some(child)`, is_process_running,
\* update_status(Running or Error). The remote path takes the first and
\* the last of these.
start_locks ==
    get_config_locks \o update_status_locks \o Section("process", "W")
        \o is_process_running_locks \o update_status_locks

\* stop: the pid under process.read(); the exit wait under process.write()
\* (one try_wait of the Windows loop, or the kill and wait of the other
\* builds); the final try_wait of the Windows branch; `*self.process.write()
\* = None`; update_status(Stopped).
stop_locks ==
    Section("process", "R") \o Section("process", "W")
        \o Section("process", "W") \o Section("process", "W")
        \o update_status_locks

restart_locks == stop_locks \o start_locks

\* update_opencode: get_status, stop, the download, update_status(Ready),
\* start.
update_opencode_locks ==
    get_status_locks \o stop_locks \o update_status_locks \o start_locks

LifecycleOps == {"initialize", "start", "stop", "restart", "update_opencode"}

LockThreads ==
    {"get_status", "get_endpoint", "get_config", "set_config", "set_mode",
     "set_app_handle", "reporter", "lifecycle"}

LifecycleLocks(op) ==
    CASE op = "initialize" -> initialize_locks
      [] op = "start" -> start_locks
      [] op = "stop" -> stop_locks
      [] op = "restart" -> restart_locks
      [] op = "update_opencode" -> update_opencode_locks

LockProgramOf(t, op) ==
    CASE t = "get_status" -> get_status_locks
      [] t = "get_endpoint" -> get_endpoint_locks
      [] t = "get_config" -> get_config_locks
      [] t = "set_config" -> set_config_locks
      [] t = "set_mode" -> set_mode_locks
      [] t = "set_app_handle" -> set_app_handle_locks
      [] t = "reporter" -> reporter_locks
      [] t = "lifecycle" -> LifecycleLocks(op)

\* The sequences by lifecycle operation and thread.
LockPrograms ==
    [op \in LifecycleOps |-> [t \in LockThreads |-> LockProgramOf(t, op)]]

LockProgram(t) == LockPrograms[lk.op][t]

Locks == {"config", "status", "process", "app_handle"}

\* No lock held, every thread before its first acquisition.
IdleLk == [op |-> "initialize", pc |-> [t \in LockThreads |-> 1]]

\* The mode in which lock l is held after the first k steps of prog
\* ("none" when it is not): that of the last acquisition of l among them,
\* unless released since.
HeldAfter(prog, k, l) ==
    LET open == {i \in 1..k :
                    /\ prog[i].a = "acq" /\ prog[i].l = l
                    /\ \A j \in (i + 1)..k :
                          ~(prog[j].a = "rel" /\ prog[j].l = l)}
    IN IF open = {} THEN "none" ELSE prog[CHOOSE i \in open : TRUE].m

HeldModes ==
    [op \in LifecycleOps |-> [t \in LockThreads |->
        [k \in 0..Len(LockPrograms[op][t]) |->
            [l \in Locks |-> HeldAfter(LockPrograms[op][t], k, l)]]]]

\* The mode in which thread t holds lock l now.
HeldMode(t, l) == HeldModes[lk.op][t][lk.pc[t] - 1][l]

\* The step thread t takes next.
NextLockStep(t) == LockProgram(t)[lk.pc[t]]

\* RwLock: readers share, a writer excludes.
Conflicts(m1, m2) == m1 = "W" \/ m2 = "W"

\* Thread t is about to acquire a lock that thread u holds in a mode that
\* excludes it.
BlockedBy(t, u) ==
    /\ t # u
    /\ NextLockStep(t).a = "acq"
    /\ HeldMode(u, NextLockStep(t).l) # "none"
    /\ Conflicts(NextLockStep(t).m, HeldMode(u, NextLockStep(t).l))

Blocked(t) == \E u \in LockThreads : BlockedBy(t, u)

\* Thread t takes its next step: an acquisition when no holder excludes
\* it, a release at any time. After its last step an operation may be
\* called again, the lifecycle thread with any of its operations.
LockStep(t) ==
    /\ lk.op # "unfollowed"
    /\ ~Blocked(t)
    /\ \E op \in IF t = "lifecycle" /\ lk.pc[t] = 1 THEN LifecycleOps
                 ELSE {lk.op} :
         LET prog == LockPrograms[op][t] IN
         lk' = [op |-> op,
                pc |-> [lk.pc EXCEPT ![t] = IF lk.pc[t] = Len(prog) THEN 1
                                            ELSE lk.pc[t] + 1]]
    /\ UNCHANGED <<svcVars, ver, info, ext, doc, term, dh>>

locks_get_status == LockStep("get_status")

locks_get_endpoint == LockStep("get_endpoint")

locks_get_config == LockStep("get_config")

locks_set_config == LockStep("set_config")

locks_set_mode == LockStep("set_mode")

locks_set_app_handle == LockStep("set_app_handle")

locks_reporter == LockStep("reporter")

locks_lifecycle == LockStep("lifecycle")

\* ------------------------------------------------------ terminal manager
\* commands/terminal.rs. term.map is TerminalManager.instances, by id: the
\* number of the instance registered under the id, 0 for no entry.
\* term.inst lists the instances in the order of their creation: the id
\* given to create_terminal, whether the shell is "alive" or "exited",
\* whether close has taken the instance out of the map, and where the
\* reader thread spawned for it is: "reading" in its loop, "cleanup" after
\* the break, "done" when it has returned.
TerminalIds == {"t1", "t2"}

EmptyTerminals == [map |-> [id \in TerminalIds |-> 0], inst |-> <<>>]

\* create_terminal(terminal_id): the PTY and the shell are created,
\* `instances.insert(terminal_id.clone(), instance)` under the mutex (an
\* entry already under the id is replaced), and the reader thread is
\* spawned. When openpty, spawn_command, try_clone_reader or take_writer
\* fails the command returns before it has touched the map.
create_terminal(id) ==
    /\ term # NoTerm
    /\ Len(term.inst) < MaxTerminals
    /\ term' = [map |-> [term.map EXCEPT ![id] = Len(term.inst) + 1],
                inst |-> Append(term.inst,
                                [id |-> id, shell |-> "alive",
                                 closed |-> FALSE, reader |-> "reading"])]
    /\ UNCHANGED <<svcVars, ver, info, ext, doc, lk, dh>>

\* TerminalManager::close(terminal_id): under the mutex
\* `instances.remove(terminal_id)`; the instance removed has its child
\* killed. With no entry under the id nothing happens.
close(id) ==
    /\ term # NoTerm
    /\ term.map[id] # 0
    /\ term' = [map |-> [term.map EXCEPT ![id] = 0],
                inst |-> [term.inst EXCEPT ![term.map[id]].closed = TRUE,
                                           ![term.map[id]].shell = "exited"]]
    /\ UNCHANGED <<svcVars, ver, info, ext, doc, lk, dh>>

\* The shell of instance g exits (on its own, or hung up when its PTY
\* master was dropped with the instance).
shell_exit(g) ==
    /\ term.inst[g].shell = "alive"
    /\ term' = [term EXCEPT !.inst[g].shell = "exited"]
    /\ UNCHANGED <<svcVars, ver, info, ext, doc, lk, dh>>

\* Reader thread of instance g: reader.read() returns Ok(0) or Err once the
\* shell side of the PTY is closed; terminal-exit is emitted and the loop
\* is left.
reader_eof(g) ==
    /\ term.inst[g].reader = "reading"
    /\ term.inst[g].shell = "exited"
    /\ term' = [term EXCEPT !.inst[g].reader = "cleanup"]
    /\ UNCHANGED <<svcVars, ver, info, ext, doc, lk, dh>>

\* Reader thread of instance g, after the loop: under the mutex
\* `instances.remove(&cleanup_terminal_id)`, whatever instance the entry
\* holds.
reader_cleanup(g) ==
    /\ term.inst[g].reader = "cleanup"
    /\ term' = [term EXCEPT !.inst[g].reader = "done",
                            !.map[term.inst[g].id] = 0]
    /\ UNCHANGED <<svcVars, ver, info, ext, doc, lk, dh>>

\* ------------------------------------------------------- group_into_hunks
\* commands/diff.rs. A DiffLine is taken by its place in `lines` (from 1;
\* the code counts from 0) and its line_type; a hunk by the places of the
\* lines cloned into it (create_hunk computes its start and count fields
\* from those lines). hunk_start_idx and last_change_idx are 0 for None.
DiffLineTypes == {"Unchanged", "Added", "Removed"}

\* The places a..b in order; empty when b < a.
Range(a, b) == [i \in 1..(IF b < a THEN 0 ELSE b - a + 1) |-> a + i - 1]

\* lines.iter().enumerate().filter(line_type != Unchanged).map(|(i, _)| i)
change_indices(lines) ==
    SelectSeq(Range(1, Len(lines)), LAMBDA i : lines[i] # "Unchanged")

\* change_idx.saturating_sub(context), on places counted from 1.
ctx_start(change_idx, context) ==
    IF change_idx - 1 < context THEN 1 ELSE change_idx - context

\* A split as soon as 2*context lines lie between two changes.
should_start_new_at_gap(change_idx, last, context) ==
    IF last = 0 THEN TRUE ELSE change_idx > last + 2 * context

\* match last_change_idx { None => true,
\*                         Some(last) => change_idx > last + 2*context + 1 }
should_start_new(change_idx, last, context) ==
    IF last = 0 THEN TRUE ELSE change_idx > last + 2 * context + 1

\* The hunk in progress with its trailing context: `let end = (last +
\* context + 1).min(lines.len())`, then lines[i] pushed for i in
\* (current_hunk_lines.len() + start)..end.
closed_hunk(d) ==
    LET end == IF d.last + d.context < Len(d.lines)
               THEN d.last + d.context ELSE Len(d.lines)
    IN d.cur \o Range(Len(d.cur) + d.start, end)

IdleDiff(lines, context) ==
    [pc |-> "call", lines |-> lines, context |-> context, k |-> 1,
     hunks |-> <<>>, cur |-> <<>>, start |-> 0, last |-> 0]

\* group_into_hunks is entered: the two early returns of Vec::new(), or
\* the loop over change_indices begins.
group_into_hunks ==
    /\ dh.pc = "call"
    /\ dh' = IF Len(dh.lines) = 0 \/ Len(change_indices(dh.lines)) = 0
             THEN [dh EXCEPT !.pc = "done"]
             ELSE [dh EXCEPT !.pc = "loop"]
    /\ UNCHANGED <<svcVars, ver, info, ext, doc, lk, term>>

\* One turn of `for &change_idx in &change_indices`.
group_into_hunks_change ==
    /\ dh.pc = "loop"
    /\ dh.k <= Len(change_indices(dh.lines))
    /\ LET change_idx == change_indices(dh.lines)[dh.k]
           first == ctx_start(change_idx, dh.context)
           flushed == IF dh.cur # <<>> /\ dh.start # 0
                      THEN Append(dh.hunks, closed_hunk(dh))
                      ELSE dh.hunks
       IN dh' =
            IF should_start_new(change_idx, dh.last, dh.context)
            THEN [dh EXCEPT
                    !.hunks = flushed,
                    !.start = first,
                    !.cur = Append(Range(first, change_idx - 1), change_idx),
                    !.last = change_idx,
                    !.k = dh.k + 1]
            ELSE [dh EXCEPT
                    !.cur = Append(
                        IF dh.start # 0
                        THEN dh.cur \o Range(dh.start + Len(dh.cur),
                                             change_idx - 1)
                        ELSE dh.cur,
                        change_idx),
                    !.last = change_idx,
                    !.k = dh.k + 1]
    /\ UNCHANGED <<svcVars, ver, info, ext, doc, lk, term>>

\* After the loop the last hunk is closed and `hunks` is returned.
group_into_hunks_return ==
    /\ dh.pc = "loop"
    /\ dh.k > Len(change_indices(dh.lines))
    /\ dh' = [dh EXCEPT
                !.hunks = IF dh.cur # <<>> /\ dh.start # 0
                          THEN Append(dh.hunks, closed_hunk(dh))
                          ELSE dh.hunks,
                !.pc = "done"]
    /\ UNCHANGED <<svcVars, ver, info, ext, doc, lk, term>>

\* ------------------------------------------------- the application's setup
\* lib.rs, setup closure. Synchronous part: init_app_data_dir()? (a failure
\* ends the setup), then state.opencode.set_app_handle(handle). Then the
\* spawned task, which is the lifecycle thread of the model: initialize();
\* on Ok get_config() and, if config.auto_start, start(); on Err a log line.
\* While the task has not called start its position is kept in life.op:
\* "none" before initialize, "setup" once get_config has been read (the
\* value read in life.cfg, the local `config` of the task).

\* state.opencode.set_app_handle(handle.clone())
setup_set_app_handle ==
    /\ life.op = "none"
    /\ set_app_handle

\* state.opencode.initialize().await, called when set_app_handle has
\* returned.
setup_initialize ==
    /\ life.op = "none"
    /\ appHandle /\ att.pc = "idle"
    /\ initialize

\* Ok(()) => { let config = state.opencode.get_config(); ... }
setup_get_config ==
    /\ life.op = "initialize"
    /\ life.pc = "idle" /\ life.ret = "Ok"
    /\ life' = [life EXCEPT !.op = "setup", !.cfg = config]
    /\ UNCHANGED <<config, status, process, appHandle, binaryInstalled,
                   envVars, procLock, reps, gs, att, lastEv, lastProgress,
                   ops, ord>>

\* A setup that starts the service whatever the flag says.
setup_start_always ==
    /\ life.op = "setup"
    /\ start

\* if config.auto_start { state.opencode.start().await }
setup_start ==
    /\ life.op = "setup"
    /\ life.cfg.auto_start
    /\ start

\* --------------------------------------------------- fetch_latest_version
\* is_expired with the boundary second counted as expired.
is_expired_early(c) ==
    (IF ver.now >= c.timestamp THEN ver.now - c.timestamp ELSE 0)
        >= VERSION_CACHE_TTL_SECS

\* VersionCache::is_expired at the time ver.now
is_expired(c) ==
    (IF ver.now >= c.timestamp THEN ver.now - c.timestamp ELSE 0)
        > VERSION_CACHE_TTL_SECS

\* read_version_cache: None without an app data directory, without the
\* file, or when the file does not parse.
read_version_cache == IF appDataDir THEN ver.cache ELSE NoCache

\* write_version_cache(tag): the file as it can be afterwards. Nothing is
\* written without an app data directory, and a failed fs::write is ignored.
write_version_cache(tag) ==
    IF appDataDir THEN {Cache(tag, ver.now), ver.cache} ELSE {ver.cache}

\* get_installed_version(None): the tag `opencode --version` prints, or
\* "none" (no binary, the binary cannot be run, no version in its output).
get_installed_version ==
    IF appDataDir /\ binaryInstalled THEN Tags \cup {"none"} ELSE {"none"}

\* get_fallback_version that trusts the cache only while it is fresh.
get_fallback_version_fresh(c, inst) ==
    IF c.some /\ ~is_expired(c) THEN c.version
    ELSE IF inst \in Tags THEN inst
    ELSE "DownloadError"

\* get_fallback_version that never asks the installed binary.
get_fallback_version_cache_only(c, inst) ==
    IF c.some THEN c.version ELSE "DownloadError"

\* get_fallback_version, given the cache read and what
\* get_installed_version returned: the cached tag even when expired, else
\* the installed version, else Err(DownloadError).
get_fallback_version(c, inst) ==
    IF c.some THEN c.version
    ELSE IF inst \in Tags THEN inst
    ELSE "DownloadError"

\* What client.get(url).send() and the reading of the response come to:
\* the request fails (Err of send), a status that is not a success, a body
\* that is not a release document, or the release with its tag_name.
Answers == {"unreachable", "403", "429", "500", "invalid_body"} \cup Tags

\* A caller invokes fetch_latest_version: a readable cache that has not
\* expired is returned at once; otherwise the request is sent. The client
\* is built without a timeout (OpencodeDownloader::new) and send() is
\* awaited bare, so the call waits for as long as the index stays silent.
fetch_latest_version ==
    /\ ver.pc = "idle"
    /\ ver.calls < MaxFetches
    /\ LET c == read_version_cache
           v == [ver EXCEPT !.calls = @ + 1, !.answer = "none",
                            !.inst = "unread"]
       IN  IF c.some /\ ~is_expired(c)
           THEN ver' = [v EXCEPT !.ret = c.version, !.asked = FALSE]
           ELSE \E quiet \in BOOLEAN :
                  ver' = [v EXCEPT !.pc = "sent", !.ret = "none",
                                   !.asked = TRUE, !.silent = quiet]
    /\ UNCHANGED <<svcVars, info, ext, doc, lk, term, dh>>

\* The request completes: Err of send and HTTP 403/429 go to
\* get_fallback_version; any other non-success status and a body that
\* does not parse are Err(DownloadError); a release is cached and returned.
fetch_response ==
    /\ ver.pc = "sent"
    /\ ~ver.silent
    /\ \E a \in Answers :
         LET v == [ver EXCEPT !.pc = "idle", !.answer = a]
         IN  CASE a \in {"unreachable", "403", "429"} ->
                    LET c == read_version_cache
                    IN  \E inst \in IF c.some THEN {"unread"}
                                     ELSE get_installed_version :
                          ver' = [v EXCEPT !.inst = inst,
                                    !.ret = get_fallback_version(c, inst)]
               [] a \in {"500", "invalid_body"} ->
                    ver' = [v EXCEPT !.ret = "DownloadError"]
               [] OTHER ->
                    \E c \in write_version_cache(a) :
                      ver' = [v EXCEPT !.cache = c, !.ret = a]
    /\ UNCHANGED <<svcVars, info, ext, doc, lk, term, dh>>

\* The system clock is seen to have advanced, by a second or by the TTL.
tick ==
    /\ ver.ticks < MaxTicks
    /\ \E d \in {1, VERSION_CACHE_TTL_SECS} :
         ver' = [ver EXCEPT !.now = @ + d, !.ticks = @ + 1]
    /\ UNCHANGED <<svcVars, info, ext, doc, lk, term, dh>>

\* ------------------------------------------------------- get_version_info
\* Version tags are sequences of characters. The tags get_version_info is
\* given: with and without the "v" prefix, with a two-digit component, with
\* a pre-release, and some that are not semantic versions.
VersionTags ==
    {
     <<"v", "1", ".", "2", ".", "0">>,  \* v1.2.0
     <<"1", ".", "2", ".", "0">>,  \* 1.2.0
     <<"v", "v", "1", ".", "2", ".", "0">>,  \* vv1.2.0
     <<"v", "1", ".", "9", ".", "0">>,  \* v1.9.0
     <<"v", "1", ".", "1", "0", ".", "0">>,  \* v1.10.0
     <<"v", "1", ".", "2", ".", "0", "-", "a">>,  \* v1.2.0-a
     <<"v", "1", ".", "2", ".", "0", "-", "b">>,  \* v1.2.0-b
     <<"v", "1", ".", "2">>,  \* v1.2
     <<"1", ".", "2">>,  \* 1.2
     <<"d", "e", "v">>  \* dev
    }

Digits == <<"0", "1", "2", "3", "4", "5", "6", "7", "8", "9">>

IsDigit(c) == \E d \in 1..10 : Digits[d] = c

DigitValue(c) == (CHOOSE d \in 1..10 : Digits[d] = c) - 1

\* str::trim_start_matches('v'): every leading 'v' is removed.
RECURSIVE trim_start_matches_v(_)
trim_start_matches_v(s) ==
    IF s # <<>> /\ Head(s) = "v" THEN trim_start_matches_v(Tail(s)) ELSE s

\* Index of the first `sep` in s, or 0.
Find(s, sep) ==
    IF \E i \in 1..Len(s) : s[i] = sep
    THEN CHOOSE i \in 1..Len(s) :
           s[i] = sep /\ \A j \in 1..(i - 1) : s[j] # sep
    ELSE 0

\* s split at every `sep`.
RECURSIVE Split(_, _)
Split(s, sep) ==
    LET i == Find(s, sep)
    IN  IF i = 0 THEN <<s>>
        ELSE <<SubSeq(s, 1, i - 1)>> \o Split(SubSeq(s, i + 1, Len(s)), sep)

\* A numeric identifier: digits, without a leading zero.
IsNumeric(p) ==
    /\ p # <<>>
    /\ \A i \in 1..Len(p) : IsDigit(p[i])
    /\ Len(p) > 1 => p[1] # "0"

RECURSIVE NumericValue(_)
NumericValue(p) ==
    IF p = <<>> THEN 0
    ELSE NumericValue(SubSeq(p, 1, Len(p) - 1)) * 10 + DigitValue(p[Len(p)])

\* A pre-release of one alphabetic identifier.
Letters == <<"a", "b", "c", "d", "e">>

IsLetters(p) ==
    p # <<>> /\ \A i \in 1..Len(p) : \E l \in 1..Len(Letters) : Letters[l] = p[i]

LetterRank(c) == CHOOSE l \in 1..Len(Letters) : Letters[l] = c

\* semver::Version::parse: MAJOR.MINOR.PATCH of numeric identifiers, then
\* an optional "-" and pre-release; `ok` is FALSE for an Err.
VersionParse(s) ==
    LET dash == Find(s, "-")
        core == IF dash = 0 THEN s ELSE SubSeq(s, 1, dash - 1)
        pre == IF dash = 0 THEN <<>> ELSE SubSeq(s, dash + 1, Len(s))
        parts == Split(core, ".")
    IN  IF /\ Len(parts) = 3
           /\ \A i \in 1..3 : IsNumeric(parts[i])
           /\ (dash # 0 => IsLetters(pre))
        THEN [ok |-> TRUE, major |-> NumericValue(parts[1]),
              minor |-> NumericValue(parts[2]),
              patch |-> NumericValue(parts[3]), pre |-> pre]
        ELSE [ok |-> FALSE, major |-> 0, minor |-> 0, patch |-> 0,
              pre |-> <<>>]

\* Alphabetic identifiers in ASCII order: a < b.
RECURSIVE LettersLess(_, _)
LettersLess(a, b) ==
    IF a = <<>> THEN b # <<>>
    ELSE IF b = <<>> THEN FALSE
    ELSE IF Head(a) # Head(b) THEN LetterRank(Head(a)) < LetterRank(Head(b))
    ELSE LettersLess(Tail(a), Tail(b))

\* Ord of semver::Version, a > b: major, minor, patch in turn, then the
\* pre-release, where a version without one is the greater.
VersionGreater(a, b) ==
    IF a.major # b.major THEN a.major > b.major
    ELSE IF a.minor # b.minor THEN a.minor > b.minor
    ELSE IF a.patch # b.patch THEN a.patch > b.patch
    ELSE IF a.pre = <<>> THEN b.pre # <<>>
    ELSE IF b.pre = <<>> THEN FALSE
    ELSE LettersLess(b.pre, a.pre)

\* update_available decided by string inequality alone.
update_available_by_inequality(inst, lat) ==
    /\ inst # NoTag
    /\ lat # NoTag
    /\ trim_start_matches_v(inst) # trim_start_matches_v(lat)

\* `let update_available = match (&installed, &latest) { ... }`
update_available(inst, lat) ==
    IF inst # NoTag /\ lat # NoTag
    THEN LET inst_clean == trim_start_matches_v(inst)
             lat_clean == trim_start_matches_v(lat)
             inst_ver == VersionParse(inst_clean)
             lat_ver == VersionParse(lat_clean)
         IN  IF inst_ver.ok /\ lat_ver.ok
             THEN VersionGreater(lat_ver, inst_ver)
             ELSE inst_clean # lat_clean
    ELSE FALSE

\* get_version_info: `installed` is what get_installed_version, or else
\* the settings, gave; `latest` the Ok of fetch_latest_version, None for
\* its Err. The VersionInfo carries both and update_available.
get_version_info ==
    /\ info.pc = "called"
    /\ info' = [info EXCEPT !.pc = "done",
                  !.update_available =
                      update_available(info.installed, info.latest)]
    /\ UNCHANGED <<svcVars, ver, ext, doc, lk, term, dh>>

\* -------------------------------------------------- extract_binary_sync
\* The lifecycle variables, which the extractor does not touch.
lifeVars ==
    <<config, status, process, appHandle, binaryInstalled, appDataDir,
      isWindows, platform, procLock, life, reps, gs, att, lastEv,
      lastProgress, ord, ops, ver, info, doc, lk, term, dh>>

\* download() returns r.
DownloadReturn(r) == [ext EXCEPT !.pc = "done", !.result = r]

\* download_file fails at `call` and download() returns r.
DownloadFileErr(call, r) == [DownloadReturn(r) EXCEPT !.failed = call]

\* download_file up to the body: send().await? (RequestError),
\* error_for_status (DownloadError), File::create(dest)? (the raw I/O
\* error); dest is the archive path.
download_file ==
    /\ ext.pc = "idle"
    /\ \/ ext' = DownloadFileErr("send", "RequestError")
       \/ ext' = DownloadFileErr("error_for_status", "DownloadError")
       \/ ext' = DownloadFileErr("create", "Io")
       \/ ext' = [ext EXCEPT !.pc = "stream", !.archive = "partial"]
    /\ UNCHANGED lifeVars

\* A download_file that streams the body into the binary path.
download_file_chunk_in_place ==
    /\ ext.pc = "stream"
    /\ \/ /\ ext.chunks < StreamChunks
          /\ ext' = [ext EXCEPT !.chunks = ext.chunks + 1,
                                !.dest = "partial"]
       \/ /\ ext.chunks < StreamChunks
          /\ \/ ext' = DownloadFileErr("stream", "DownloadError")
             \/ ext' = DownloadFileErr("write_all", "Io")
       \/ /\ ext.chunks = StreamChunks
          /\ ext' = [ext EXCEPT !.pc = "extract", !.archive = "complete"]
    /\ UNCHANGED lifeVars

\* One turn of the stream loop of download_file: the chunk is written to
\* the archive (write_all fails: the raw I/O error), or the stream yields
\* an error (DownloadError), or it ends and download_file returns.
download_file_chunk ==
    /\ ext.pc = "stream"
    /\ \/ /\ ext.chunks < StreamChunks
          /\ ext' = [ext EXCEPT !.chunks = ext.chunks + 1,
                                !.archive = "partial"]
       \/ /\ ext.chunks < StreamChunks
          /\ \/ ext' = DownloadFileErr("stream", "DownloadError")
             \/ ext' = DownloadFileErr("write_all", "Io")
       \/ /\ ext.chunks = StreamChunks
          /\ ext' = [ext EXCEPT !.pc = "extract", !.archive = "complete"]
    /\ UNCHANGED lifeVars

\* extract_binary_sync returns r: an Err is what download() returns, after
\* Ok download() goes on to its cleanup.
ExtReturn(r) ==
    [ext EXCEPT !.pc = IF r = "Ok" THEN "extracted" ELSE "done",
                !.ret = r,
                !.result = IF r = "Ok" THEN "none" ELSE r]

\* download() after the extraction: remove_file(&archive_path), a failure
\* logged; on Unix the permissions of the binary are set (`?` on metadata
\* and set_permissions); Ok(binary_path).
download_finish ==
    /\ ext.pc = "extracted"
    /\ \E removed \in BOOLEAN :
         \/ ext' = [DownloadReturn("Ok") EXCEPT
                       !.archive = IF removed THEN "none" ELSE ext.archive]
         \/ /\ ~isWindows
            /\ ext' = [DownloadReturn("Io") EXCEPT
                          !.archive = IF removed THEN "none" ELSE ext.archive]
    /\ UNCHANGED lifeVars

\* extract_binary_sync up to the matching archive entry. On Windows
\* extract_zip_sync: File::open (`?`: the raw I/O error), ZipArchive::new
\* and by_index (ExtractError with the zip error), the search for an entry
\* whose name ends with binary_name (none: ExtractError "not found in
\* archive"), then `if dest_path.exists()`. Elsewhere extract_tar_gz_sync.
extract_binary_sync ==
    /\ ext.pc = "extract"
    /\ \/ /\ isWindows
          /\ \/ ext' = ExtReturn("Io")
             \/ ext' = ExtReturn("ExtractError:zip")
             \/ ext' = ExtReturn("ExtractError:not found in archive")
             \/ ext' = [ext EXCEPT !.pc = IF ext.dest # "none"
                                          THEN "zip_clean_old"
                                          ELSE "zip_create"]
       \/ /\ ~isWindows
          /\ ext' = [ext EXCEPT !.pc = "tar"]
    /\ UNCHANGED lifeVars

\* if old_path.exists() { let _ = std::fs::remove_file(&old_path); }
\* The removal may fail; its result is dropped.
zip_clean_old ==
    /\ ext.pc = "zip_clean_old"
    /\ \E removed \in BOOLEAN :
         ext' = [ext EXCEPT !.pc = "zip_rename",
                            !.old = ext.old /\ ~removed]
    /\ UNCHANGED lifeVars

\* match std::fs::rename(&dest_path, &old_path): Ok goes on to the
\* extraction, Err enters the delete loop with attempt = 1.
zip_rename ==
    /\ ext.pc = "zip_rename"
    /\ \/ ext' = [ext EXCEPT !.pc = "zip_create", !.dest = "none",
                             !.old = TRUE, !.renamed = TRUE]
       \/ ext' = [ext EXCEPT !.pc = "zip_delete", !.renameFailed = TRUE,
                             !.attempt = 1]
    /\ UNCHANGED lifeVars

\* A variant of the delete loop whose last failed attempt hands the error
\* of remove_file to the caller.
zip_delete_raw_error ==
    /\ ext.pc = "zip_delete"
    /\ \/ ext' = [ext EXCEPT !.pc = "zip_create", !.dest = "none",
                             !.removes = ext.removes + 1]
       \/ /\ ext.attempt < max_retries
          /\ ext' = [ext EXCEPT !.pc = "zip_sleep",
                                !.removes = ext.removes + 1]
       \/ /\ ext.attempt >= max_retries
          /\ ext' = [ExtReturn("Io") EXCEPT !.removes = ext.removes + 1]
    /\ UNCHANGED lifeVars

\* One pass of `for attempt in 1..=max_retries`: remove_file(&dest_path).
\* Ok leaves the loop with deleted = true; Err sleeps when attempt <
\* max_retries and otherwise returns ExtractError with the text "the old
\* version cannot be replaced, the file is in use" and its likely causes.
zip_delete ==
    /\ ext.pc = "zip_delete"
    /\ \/ ext' = [ext EXCEPT !.pc = "zip_create", !.dest = "none",
                             !.removes = ext.removes + 1]
       \/ /\ ext.attempt < max_retries
          /\ ext' = [ext EXCEPT !.pc = "zip_sleep",
                                !.removes = ext.removes + 1]
       \/ /\ ext.attempt >= max_retries
          /\ ext' = [ExtReturn("ExtractError:file in use") EXCEPT
                         !.removes = ext.removes + 1]
    /\ UNCHANGED lifeVars

\* std::thread::sleep(500 ms), then the next pass of the loop.
zip_sleep ==
    /\ ext.pc = "zip_sleep"
    /\ ext' = [ext EXCEPT !.pc = "zip_delete",
                          !.attempt = ext.attempt + 1,
                          !.slept = ext.slept + RetryBackoffMillis]
    /\ UNCHANGED lifeVars

\* File::create(&dest_path)?, io::copy(..)?, the cleaner thread spawned
\* when old_path exists, return Ok(()); back in extract_binary_sync the
\* binary_path.exists() test, which the file just written passes. A failed
\* create leaves dest_path as it is, a failed copy leaves a partial file;
\* both return the raw I/O error.
zip_create ==
    /\ ext.pc = "zip_create"
    /\ \/ ext' = [ExtReturn("Ok") EXCEPT !.dest = "new",
                                          !.cleaner = ext.old]
       \/ ext' = ExtReturn("Io")
       \/ ext' = [ExtReturn("Io") EXCEPT !.dest = "partial"]
    /\ UNCHANGED lifeVars

\* The spawned thread: sleep 5 s, remove_file(&old_path), a failure logged.
old_cleaner ==
    /\ ext.cleaner
    /\ \E removed \in BOOLEAN :
         ext' = [ext EXCEPT !.cleaner = FALSE, !.old = ext.old /\ ~removed]
    /\ UNCHANGED lifeVars

\* extract_tar_gz_sync (not Windows): `tar -xzf archive -C dest_dir`, a
\* non-zero exit is ExtractError "tar extraction failed"; then the binary
\* is looked up in dest_dir and its sub-directories, and extract_binary_sync
\* tests binary_path.exists().
extract_tar_gz_sync ==
    /\ ext.pc = "tar"
    /\ \/ ext' = ExtReturn("Io")
       \/ \E d \in {ext.dest, "partial"} :
            ext' = [ExtReturn("ExtractError:tar extraction failed")
                        EXCEPT !.dest = d]
       \/ ext' = [ExtReturn("Ok") EXCEPT !.dest = "new"]
       \/ /\ ext.dest = "none"
          /\ ext' = ExtReturn("ExtractError:not found after extraction")
    /\ UNCHANGED lifeVars

\* ----------------------------------------- the companion configuration file
\* build_opencode_config(port): the document of a fresh install, with the
\* plugin member when the plugin file exists.
build_opencode_config(port, has_plugin) ==
    [file |-> "object", server |-> "object", port |-> port,
     hostname |-> "127.0.0.1",
     plugin |-> IF has_plugin THEN "bridge" ELSE "absent", rest |-> "axon"]

\* The document update_config_port serialises: `server` absent gets a new
\* server object {port, hostname}; a server object gets its port
\* inserted; any other server value is left; `plugin` absent gets the
\* plugin array when the plugin file exists.
patched_config(d, port, plugin_exists) ==
    LET s == IF d.server = "absent"
             THEN [d EXCEPT !.server = "object", !.port = port,
                            !.hostname = "127.0.0.1"]
             ELSE IF d.server = "object" THEN [d EXCEPT !.port = port]
             ELSE d
    IN IF s.plugin = "absent" /\ plugin_exists
       THEN [s EXCEPT !.plugin = "bridge"] ELSE s

\* update_config_port(config_file, port): read_to_string and from_str
\* return early on failure; the patched document is written back, a failed
\* write is logged.
update_config_port(f, port) ==
    IF f.content.file # "object" \/ ~f.writable THEN f.content
    ELSE patched_config(f.content, port, f.pluginInstalled)

\* The ports start_local_service resolves: a configured port that is not
\* 0, or the one find_available_port found.
ResolvedPorts == (ConfigPorts \ {0}) \cup EphemeralPorts

\* start_local_service from get_app_data_dir to the companion file, on the
\* resolved port: the file is patched when it exists, else written from
\* build_opencode_config; a failed write is logged.
start_config_file ==
    /\ appDataDir
    /\ \E port \in ResolvedPorts :
         doc' = [doc EXCEPT
                   !.resolved = port,
                   !.was = doc.content,
                   !.content =
                       IF doc.content.file # "absent"
                       THEN update_config_port(doc, port)
                       ELSE IF doc.writable
                       THEN build_opencode_config(port, doc.pluginInstalled)
                       ELSE doc.content]
    /\ UNCHANGED <<svcVars, ver, info, ext, lk, term, dh>>

\* initialize on a service whose binary is installed, and the second half
\* of every update_status.
Initialize ==
    \/ initialize
    \/ initialize_ready
    \/ update_status_emit

\* The download of the binary by initialize and update_opencode, with the
\* reporter tasks they spawn.
Install ==
    \/ initialize_downloading
    \/ download_extract
    \/ \E i \in 1..Len(reps) :
         \/ reporter_recv(i)
         \/ reporter_update_status(i)
         \/ reporter_emit_status(i)
    \/ update_opencode
    \/ update_proc
    \/ update_ready

\* The steps of stop that are taken whether or not a child is held.
StopCore ==
    \/ stop_read
    \/ stop_clear
    \/ stop_stopped

\* The operations that install the binary (initialize, update_opencode)
\* with the steps they take on a service that holds no child.
Transfer == Initialize \/ Install \/ StopCore

\* The operations that run the child (start, stop, restart), and the child
\* process itself.
Run ==
    \/ start
    \/ start_begin
    \/ start_starting
    \/ start_spawn
    \/ start_check
    \/ start_running
    \/ start_error
    \/ start_remote
    \/ child_exit
    \/ stop
    \/ stop_kill
    \/ stop_wait
    \/ stop_taskkill
    \/ stop_poll
    \/ restart

\* The correction inside update_opencode's get_status, which only a held
\* child enables.
UpdateCorrect ==
    \/ update_port_status
    \/ update_port_config
    \/ update_write

Control == Run \/ UpdateCorrect

\* The lifecycle operations (one at a time, as the frontend issues them),
\* the reporter tasks they spawn, and the child process.
Service ==
    \/ Transfer
    \/ Control
    \/ download_begin
    \/ download_chunk

\* get_status called concurrently with the lifecycle operations.
Query ==
    \/ get_status
    \/ get_status_proc
    \/ get_status_port_status
    \/ get_status_port_config
    \/ get_status_write

\* set_app_handle called concurrently with the lifecycle operations.
Attach ==
    \/ set_app_handle
    \/ set_app_handle_read
    \/ set_app_handle_emit

Configure ==
    \/ set_config
    \/ set_mode

\* The service with its configuration commands.
Next == Service \/ Configure

Spec == Init /\ [][Next]_vars

\* The service with a concurrent get_status.
NextQuery == Service \/ Configure \/ Query

SpecQuery == Init /\ [][NextQuery]_vars

\* The service with the subscriber being attached concurrently.
NextAttach == Service \/ Configure \/ Attach

SpecAttach == Init /\ [][NextAttach]_vars

\* The application's setup attaches the handle before it calls any other
\* operation of the service: the state after set_app_handle has run on the
\* freshly constructed service, the Uninitialized status replayed.
InitSetup ==
    /\ config = DefaultConfig
    /\ status = Uninitialized
    /\ process = NoChild
    /\ appHandle = TRUE
    /\ binaryInstalled \in BOOLEAN
    /\ appDataDir = TRUE
    /\ isWindows \in BOOLEAN
    /\ platform = HostPlatform(isWindows)
    /\ procLock = FALSE
    /\ life = IdleLife
    /\ reps = <<>>
    /\ gs = IdleGs
    /\ att = IdleAtt
    /\ lastEv = Uninitialized
    /\ lastProgress = NoProgress
    /\ ord = [NoOrd EXCEPT !.ev = 0, !.attach = 0]
    /\ ops = 0
    /\ ver = IdleVer
    /\ info = NoInfo
    /\ dh = NoDiff
    /\ term = NoTerm
    /\ lk = NoLk
    /\ doc = NoDoc
    /\ ext = NoExt

\* The service after setup, with a concurrent get_status.
SpecSetup == InitSetup /\ [][NextQuery]_vars

\* After setup with the binary installed: initialize, start, stop and
\* restart with a concurrent get_status; nothing is downloaded.
InitInstalled == InitSetup /\ binaryInstalled

NextStatus == Initialize \/ StopCore \/ Run \/ Configure \/ Query

SpecStatus == InitInstalled /\ [][NextStatus]_vars

\* The version resolution on its own; a cache file may be left from an
\* earlier run of the application.
InitVersion ==
    /\ config = DefaultConfig
    /\ status = Uninitialized
    /\ process = NoChild
    /\ appHandle = TRUE
    /\ binaryInstalled \in BOOLEAN
    /\ appDataDir \in BOOLEAN
    /\ (binaryInstalled => appDataDir)
    /\ isWindows = FALSE
    /\ platform = HostPlatform(isWindows)
    /\ procLock = FALSE
    /\ life = IdleLife
    /\ reps = <<>>
    /\ gs = IdleGs
    /\ att = IdleAtt
    /\ lastEv = Uninitialized
    /\ lastProgress = NoProgress
    /\ ord = [NoOrd EXCEPT !.ev = 0, !.attach = 0]
    /\ ops = 0
    /\ \E c \in {NoCache} \cup {Cache(t, 0) : t \in Tags} :
         ver = [IdleVer EXCEPT !.cache = IF appDataDir THEN c ELSE NoCache]
    /\ info = NoInfo
    /\ dh = NoDiff
    /\ term = NoTerm
    /\ lk = NoLk
    /\ doc = NoDoc
    /\ ext = NoExt

NextVersion == fetch_latest_version \/ fetch_response \/ tick

SpecVersion == InitVersion /\ [][NextVersion]_vars

\* get_version_info on its own, called with every pair of version tags.
InitInfo ==
    /\ config = DefaultConfig
    /\ status = Uninitialized
    /\ process = NoChild
    /\ appHandle = TRUE
    /\ binaryInstalled = TRUE
    /\ appDataDir = TRUE
    /\ isWindows = FALSE
    /\ platform = HostPlatform(isWindows)
    /\ procLock = FALSE
    /\ life = IdleLife
    /\ reps = <<>>
    /\ gs = IdleGs
    /\ att = IdleAtt
    /\ lastEv = Uninitialized
    /\ lastProgress = NoProgress
    /\ ord = [NoOrd EXCEPT !.ev = 0, !.attach = 0]
    /\ ops = 0
    /\ ver = IdleVer
    /\ \E inst \in VersionTags \cup {NoTag}, lat \in VersionTags \cup {NoTag} :
         info = [NoInfo EXCEPT !.pc = "called", !.installed = inst,
                               !.latest = lat]
    /\ ext = NoExt
    /\ doc = NoDoc
    /\ lk = NoLk
    /\ term = NoTerm
    /\ dh = NoDiff

NextInfo == get_version_info

SpecInfo == InitInfo /\ [][NextInfo]_vars

\* The installing operations on a build for which the platform resolver
\* has no release asset; the binary may have been put in place by hand.
InitUnsupported ==
    /\ config = DefaultConfig
    /\ status = Uninitialized
    /\ process = NoChild
    /\ appHandle = TRUE
    /\ binaryInstalled \in BOOLEAN
    /\ appDataDir \in BOOLEAN
    /\ (binaryInstalled => appDataDir)
    /\ platform \in {pl \in Platforms :
                        get_platform_identifier(pl.os, pl.arch) = "none"}
    /\ isWindows = (platform.os = "windows")
    /\ procLock = FALSE
    /\ life = IdleLife
    /\ reps = <<>>
    /\ gs = IdleGs
    /\ att = IdleAtt
    /\ lastEv = Uninitialized
    /\ lastProgress = NoProgress
    /\ ord = [NoOrd EXCEPT !.ev = 0, !.attach = 0]
    /\ ops = 0
    /\ ver = IdleVer
    /\ info = NoInfo
    /\ dh = NoDiff
    /\ term = NoTerm
    /\ lk = NoLk
    /\ doc = NoDoc
    /\ ext = NoExt

NextUnsupported ==
    \/ Initialize
    \/ initialize_downloading
    \/ update_opencode
    \/ update_proc
    \/ StopCore
    \/ download_begin
    \/ Configure

SpecUnsupported == InitUnsupported /\ [][NextUnsupported]_vars

\* The service after a local start whose child had exited by the liveness
\* check: Error stored and delivered, the handle of the dead child kept.
InitError ==
    /\ \E cp \in ConfigPorts :
         /\ config = [DefaultConfig EXCEPT !.port = cp]
         /\ \E p \in IF cp = 0 THEN EphemeralPorts ELSE {cp} :
              process = [Child(p) EXCEPT !.alive = FALSE]
    /\ status = Error("start_failed")
    /\ appHandle = TRUE
    /\ binaryInstalled = TRUE
    /\ appDataDir = TRUE
    /\ isWindows \in BOOLEAN
    /\ platform = HostPlatform(isWindows)
    /\ procLock = FALSE
    /\ life = IdleLife
    /\ reps = <<>>
    /\ gs = IdleGs
    /\ att = IdleAtt
    /\ lastEv = Error("start_failed")
    /\ lastProgress = NoProgress
    /\ ord = [NoOrd EXCEPT !.ev = 0, !.attach = 1]
    /\ ops = 0
    /\ ver = IdleVer
    /\ info = NoInfo
    /\ dh = NoDiff
    /\ term = NoTerm
    /\ lk = NoLk
    /\ ext = NoExt
    /\ doc = NoDoc

\* The lifecycle operations called on that service.
NextError == Initialize \/ StopCore \/ Run \/ Configure

SpecError == InitError /\ [][NextError]_vars

\* After setup with no binary on disk: start, stop and restart, in either
\* mode; nothing is downloaded.
InitMissing == InitSetup /\ ~binaryInstalled

NextMissing ==
    \/ start
    \/ start_begin
    \/ start_remote
    \/ stop
    \/ restart
    \/ StopCore
    \/ update_status_emit
    \/ Configure

SpecMissing == InitMissing /\ [][NextMissing]_vars

\* The application's setup on a freshly constructed service, the app data
\* directory initialised: attach, initialize, automatic start, with the
\* frontend calling set_config and set_mode next to them.
InitBoot == Init /\ appDataDir

NextBoot ==
    \/ setup_set_app_handle
    \/ set_app_handle_read
    \/ set_app_handle_emit
    \/ setup_initialize
    \/ setup_get_config
    \/ setup_start
    \/ initialize_downloading
    \/ initialize_ready
    \/ update_status_emit
    \/ download_begin
    \/ download_chunk
    \/ download_extract
    \/ \E i \in 1..Len(reps) :
         \/ reporter_recv(i)
         \/ reporter_update_status(i)
         \/ reporter_emit_status(i)
    \/ start_begin
    \/ start_starting
    \/ start_spawn
    \/ start_check
    \/ start_running
    \/ start_error
    \/ start_remote
    \/ child_exit
    \/ set_config_auto_start
    \/ set_mode

SpecBoot == InitBoot /\ [][NextBoot]_vars

\* The callers of the service as threads that take and release its locks.
InitLocks ==
    /\ config = DefaultConfig
    /\ status = Uninitialized
    /\ process = NoChild
    /\ appHandle = FALSE
    /\ binaryInstalled = TRUE
    /\ appDataDir = TRUE
    /\ isWindows = FALSE
    /\ platform = HostPlatform(isWindows)
    /\ procLock = FALSE
    /\ life = IdleLife
    /\ reps = <<>>
    /\ gs = IdleGs
    /\ att = IdleAtt
    /\ lastEv = NoStatus
    /\ lastProgress = NoProgress
    /\ ord = NoOrd
    /\ ops = 0
    /\ ver = IdleVer
    /\ info = NoInfo
    /\ dh = NoDiff
    /\ ext = NoExt
    /\ doc = NoDoc
    /\ lk = IdleLk
    /\ term = NoTerm

NextLocks ==
    \/ locks_get_status
    \/ locks_get_endpoint
    \/ locks_get_config
    \/ locks_set_config
    \/ locks_set_mode
    \/ locks_set_app_handle
    \/ locks_reporter
    \/ locks_lifecycle

SpecLocks == InitLocks /\ [][NextLocks]_vars

\* The terminal manager from its construction on.
InitTerminals ==
    /\ config = DefaultConfig
    /\ status = Uninitialized
    /\ process = NoChild
    /\ appHandle = FALSE
    /\ binaryInstalled = TRUE
    /\ appDataDir = TRUE
    /\ isWindows = FALSE
    /\ platform = HostPlatform(isWindows)
    /\ procLock = FALSE
    /\ life = IdleLife
    /\ reps = <<>>
    /\ gs = IdleGs
    /\ att = IdleAtt
    /\ lastEv = NoStatus
    /\ lastProgress = NoProgress
    /\ ord = NoOrd
    /\ ops = 0
    /\ ver = IdleVer
    /\ info = NoInfo
    /\ dh = NoDiff
    /\ ext = NoExt
    /\ doc = NoDoc
    /\ lk = NoLk
    /\ term = EmptyTerminals

NextTerminals ==
    \/ \E id \in TerminalIds : create_terminal(id)
    \/ \E id \in TerminalIds : close(id)
    \/ \E g \in 1..Len(term.inst) : shell_exit(g)
    \/ \E g \in 1..Len(term.inst) : reader_eof(g)
    \/ \E g \in 1..Len(term.inst) : reader_cleanup(g)

SpecTerminals == InitTerminals /\ [][NextTerminals]_vars

\* group_into_hunks called on any sequence of diff lines.
DiffInputs ==
    UNION {[1..n -> DiffLineTypes] : n \in 0..MaxLines}

InitDiff ==
    /\ config = DefaultConfig
    /\ status = Uninitialized
    /\ process = NoChild
    /\ appHandle = FALSE
    /\ binaryInstalled = TRUE
    /\ appDataDir = TRUE
    /\ isWindows = FALSE
    /\ platform = HostPlatform(isWindows)
    /\ procLock = FALSE
    /\ life = IdleLife
    /\ reps = <<>>
    /\ gs = IdleGs
    /\ att = IdleAtt
    /\ lastEv = NoStatus
    /\ lastProgress = NoProgress
    /\ ord = NoOrd
    /\ ops = 0
    /\ ver = IdleVer
    /\ info = NoInfo
    /\ ext = NoExt
    /\ doc = NoDoc
    /\ lk = NoLk
    /\ term = NoTerm
    /\ \E lines \in DiffInputs, context \in 0..MaxContext :
         dh = IdleDiff(lines, context)

NextDiff ==
    \/ group_into_hunks
    \/ group_into_hunks_change
    \/ group_into_hunks_return

SpecDiff == InitDiff /\ [][NextDiff]_vars

\* download() from download_file on: the destination directory may hold
\* the binary of an earlier install and a .old file an earlier update left
\* behind.
InitExtract ==
    /\ config = DefaultConfig
    /\ status = Uninitialized
    /\ process = NoChild
    /\ appHandle = TRUE
    /\ binaryInstalled \in BOOLEAN
    /\ appDataDir = TRUE
    /\ isWindows \in BOOLEAN
    /\ platform = HostPlatform(isWindows)
    /\ procLock = FALSE
    /\ life = IdleLife
    /\ reps = <<>>
    /\ gs = IdleGs
    /\ att = IdleAtt
    /\ lastEv = Uninitialized
    /\ lastProgress = NoProgress
    /\ ord = [NoOrd EXCEPT !.ev = 0, !.attach = 0]
    /\ ops = 0
    /\ ver = IdleVer
    /\ info = NoInfo
    /\ dh = NoDiff
    /\ term = NoTerm
    /\ lk = NoLk
    /\ doc = NoDoc
    /\ \E o \in BOOLEAN :
         ext = [IdleExt EXCEPT !.dest = IF binaryInstalled THEN "old"
                                                          ELSE "none",
                              !.old = o]

NextExtract ==
    \/ download_file
    \/ download_file_chunk
    \/ download_finish
    \/ extract_binary_sync
    \/ zip_clean_old
    \/ zip_rename
    \/ zip_delete
    \/ zip_sleep
    \/ zip_create
    \/ old_cleaner
    \/ extract_tar_gz_sync

SpecExtract == InitExtract /\ [][NextExtract]_vars

\* The documents a start can find in the file.
Documents ==
    {NoDocument, [NoDocument EXCEPT !.file = "unreadable"],
     [NoDocument EXCEPT !.file = "invalid"]}
    \cup {[file |-> "object", server |-> sv, port |-> -1,
           hostname |-> "absent", plugin |-> pl, rest |-> r] :
             sv \in {"absent", "scalar"},
             pl \in {"absent", "bridge", "user"},
             r \in {"none", "axon", "custom"}}
    \cup {[file |-> "object", server |-> "object", port |-> p,
           hostname |-> h, plugin |-> pl, rest |-> r] :
             p \in {-1} \cup ResolvedPorts,
             h \in {"absent", "127.0.0.1", "0.0.0.0"},
             pl \in {"absent", "bridge", "user"},
             r \in {"none", "axon", "custom"}}

\* The companion file on its own, after setup: any document may be there
\* from an earlier run, edited by the user or by opencode.
InitConfigFile ==
    /\ config = DefaultConfig
    /\ status = Uninitialized
    /\ process = NoChild
    /\ appHandle = TRUE
    /\ binaryInstalled = TRUE
    /\ appDataDir = TRUE
    /\ isWindows \in BOOLEAN
    /\ platform = HostPlatform(isWindows)
    /\ procLock = FALSE
    /\ life = IdleLife
    /\ reps = <<>>
    /\ gs = IdleGs
    /\ att = IdleAtt
    /\ lastEv = Uninitialized
    /\ lastProgress = NoProgress
    /\ ord = [NoOrd EXCEPT !.ev = 0, !.attach = 0]
    /\ ops = 0
    /\ ver = IdleVer
    /\ info = NoInfo
    /\ dh = NoDiff
    /\ term = NoTerm
    /\ lk = NoLk
    /\ ext = NoExt
    /\ \E d \in Documents, w \in BOOLEAN, pl \in BOOLEAN :
         doc = [NoConfigFile EXCEPT !.content = d, !.was = d,
                                   !.writable = w, !.pluginInstalled = pl]

NextConfigFile == start_config_file

SpecConfigFile == InitConfigFile /\ [][NextConfigFile]_vars

\* After setup, the installing operations of a service that is never
\* started, their downloads streaming several chunks.
NextProgress == Transfer \/ download_begin_long \/ download_chunk_long

SpecProgress == InitSetup /\ [][NextProgress]_vars
\* ================================================================ claims
\* The lifecycle thread takes a step / returns to its caller in this step.
LifeStep == life' # life

Returns == life.pc # "idle" /\ life'.pc = "idle"

\* ---------------------------------------------------------------------- C1
\* A local start has written Starting and has not returned yet: it is at one
\* of the steps after the write, or emitting one of the statuses only a
\* local start writes through update_status.
LocalStartAfterStarting ==
    /\ life.cfg.mode = "Local"
    /\ \/ life.pc \in {"start_spawn", "start_check", "start_running",
                       "start_error"}
       \/ /\ life.pc = "emit"
          /\ life.pend.type \in {"Starting", "Running", "Error"}

\* C1 (as stated): in local mode every start that has set the status to
\* Starting returns with the stored status Running{port} or Error{message};
\* no outcome leaves it at Starting.
C1_StartLeavesStarting ==
    [][(LocalStartAfterStarting /\ Returns)
          => status'.type \in {"Running", "Error"}]_vars

\* C1, the failing case: start has returned ServiceStartError and the
\* stored status is still Starting.
C1_StuckStarting ==
    /\ life.op = "start"
    /\ life.pc = "idle"
    /\ life.ret = "ServiceStartError"
    /\ status = Starting

\* ---------------------------------------------------------------------- C2
\* C2 (as stated): initialize as the first operation, from Uninitialized.
\* When it downloads, the status is Downloading{0} when the download
\* begins, a Downloading value for as long as the download and the
\* extraction run, never Running, and Ready once initialize has returned
\* Ok and its reporter has drained.
C2_InitializeEndsReady ==
    (ops = 1 /\ life.op = "initialize") =>
        /\ life.pc = "dl_begin" => status = Downloading(0)
        /\ life.pc \in {"dl_begin", "dl_chunk", "dl_extract"}
              => IsDownloading(status)
        /\ status.type # "Running"
        /\ (life.pc = "idle" /\ life.ret = "Ok" /\ Len(reps) = 1
                /\ AllReportersDone)
              => status = Ready

\* C2, the failing case: initialize has returned Ok after a download, its
\* reporter has ended, and the stored status is a Downloading value.
C2_RevertedToDownloading ==
    /\ ops = 1 /\ life.op = "initialize"
    /\ life.pc = "idle" /\ life.ret = "Ok"
    /\ Len(reps) = 1 /\ AllReportersDone
    /\ IsDownloading(status)

StopSteps ==
    \/ stop_read
    \/ stop_kill
    \/ stop_wait
    \/ stop_taskkill
    \/ stop_poll
    \/ stop_clear
    \/ stop_stopped
    \/ update_status_emit

\* C4 (as stated): stop returns even if the child never exits after the
\* termination request: while a stop is in flight, stop itself can take
\* its next step, whatever the child does.
C4_StopNeverBlocks ==
    (life.op = "stop" /\ life.pc # "idle") => ENABLED StopSteps

\* C4, the failing case: stop sits in child.wait() with the process lock
\* held and the child alive.
C4_StopWaitsForChild ==
    /\ life.op = "stop"
    /\ life.pc = "stop_wait"
    /\ procLock
    /\ process.alive

\* ---------------------------------------------------------------------- C5
\* C5 (as stated): a start that succeeds with the configured port 0 has
\* written a Running status with a nonzero port, in either mode.
C5_RunningPortNonzero ==
    (/\ life.pc = "emit"
     /\ IsRunning(life.pend)
     /\ life.cfg.port = 0)
        => life.pend.port # 0

\* C5, the failing case: a remote start left Running with port 0.
C5_RemoteRunningPortZero ==
    /\ life.op = "start"
    /\ life.pc = "idle" /\ life.ret = "Ok"
    /\ config.mode = "Remote"
    /\ status = Running(0)

\* ---------------------------------------------------------------------- C6
\* C6: every step of a local start. The liveness check is reached only by
\* the spawn, which stores the child started on the resolved port; the
\* write of Running is reached only from a check that saw the child alive;
\* Running carries the port the child was given, the configured one or,
\* for 0, the negotiated one; a check that finds the child exited leads to
\* the write of Error and to start returning ServiceStartError.
C6_RunningAfterLivenessCheck ==
    [][(LifeStep /\ life.cfg.mode = "Local") =>
          /\ (life'.pc = "start_check")
                => life.pc = "start_spawn" /\ process' = Child(life.port)
          /\ (life'.pc = "start_running")
                => life.pc = "start_check" /\ process.some /\ process.alive
          /\ (life'.pc = "emit" /\ IsRunning(life'.pend))
                => /\ life.pc = "start_running"
                   /\ status' = Running(process.port)
                   /\ process.some
                   /\ IF life.cfg.port # 0
                      THEN status'.port = life.cfg.port
                      ELSE status'.port \in EphemeralPorts
          /\ (life.pc = "start_check" /\ ~(process.some /\ process.alive))
                => life'.pc = "start_error"
          /\ (life.pc = "start_error")
                => /\ status'.type = "Error"
                   /\ life'.pc = "emit"
                   /\ life.op # "update" => life'.kret = "ServiceStartError"
          /\ (life.pc = "emit" /\ life.pend.type = "Error")
                => Returns /\ life'.ret = life.kret]_vars

\* C6, reached: a local start on a negotiated port has written Running
\* with the port of the child it spawned.
C6_LocalRunning ==
    /\ life.op = "start"
    /\ life.pc = "emit"
    /\ life.cfg.mode = "Local" /\ life.cfg.port = 0
    /\ process.some
    /\ status = Running(process.port)
    /\ status.port \in EphemeralPorts

\* ---------------------------------------------------------------------- C7
\* C7 (as stated): once update_opencode has returned Ok and its reporter
\* has drained, the status is Running if the service was running before the
\* update and Ready if it was not.
C7_UpdateRestoresState ==
    (/\ life.op = "update"
     /\ life.pc = "idle" /\ life.ret = "Ok"
     /\ AllReportersDone)
        => IF life.wasRunning THEN IsRunning(status) ELSE status = Ready

\* C7, the failing case: the service was running, update_opencode has
\* returned Ok, and the status is Error.
C7_UpdateLeavesError ==
    /\ life.op = "update"
    /\ life.pc = "idle" /\ life.ret = "Ok"
    /\ life.wasRunning
    /\ AllReportersDone
    /\ status.type = "Error"

\* ---------------------------------------------------------------------- C8
\* C8 (as stated): with a subscriber attached, every write that changes the
\* stored status belongs to an update_status whose emit of the value
\* written is now due: the writer holds the value now stored.
C8_EveryChangeBroadcast ==
    [][(appHandle /\ status' # status)
          => \/ ord'.life = 0
             \/ \E i \in 1..Len(reps) : ord'.reps[i] = 0]_vars

\* C8, the failing case: get_status is idle again, no update_status is in
\* flight, and the status stored is one the subscriber was not sent.
C8_SilentCorrection ==
    /\ appHandle
    /\ IsRunning(status)
    /\ lastEv # status
    /\ life.pc # "emit" /\ gs.pc = "idle"
    /\ \A i \in 1..Len(reps) : reps[i].pc # "emit"
    /\ ord.ev # 0

\* ----------------------------------------------------------- C9 and C10
\* The age rank of the status event this step delivers to the subscriber,
\* -1 when the step delivers none. emit_event delivers when the handle is
\* set at the time of the emit.
DeliveredRank ==
    IF ~appHandle THEN -1
    ELSE IF life.pc = "emit" /\ life' # life THEN ord.life
    ELSE IF att.pc = "emit" /\ att' # att THEN ord.att
    ELSE IF \E i \in 1..Len(reps) : reps[i].pc = "emit" /\ reps'[i] # reps[i]
         THEN ord.reps[CHOOSE i \in 1..Len(reps) :
                           reps[i].pc = "emit" /\ reps'[i] # reps[i]]
    ELSE -1

\* C9 (as stated): without a handle nothing is delivered; the replay of
\* set_app_handle delivers the status stored when the handle was attached,
\* no other event carries that status, and no event carries a status
\* older than it.
C9_ReplayOnlyCurrentStatus ==
    [][/\ ~appHandle => lastEv' = lastEv
       /\ (att.pc = "emit" /\ att' # att) => ord.att = ord.attach
       /\ (DeliveredRank # -1 /\ ~(att.pc = "emit" /\ att' # att))
             => DeliveredRank < ord.attach]_vars

\* C9, the failing case: the last event delivered carries a status written
\* before the one that was stored when the handle was attached.
C9_StaleStatusDelivered ==
    /\ appHandle
    /\ ord.ev > ord.attach
    /\ ord.attach # -1

\* C10 (as stated): no status event is delivered after an event of a later
\* write; and once every operation has finished, the last delivered status
\* is the stored status.
C10_EventsInWriteOrder ==
    /\ [][(DeliveredRank # -1 /\ ord.ev # -1)
             => DeliveredRank <= ord.ev]_vars
    /\ []((/\ appHandle
            /\ life.pc = "idle" /\ att.pc = "idle"
            /\ AllReportersDone)
               => lastEv = status)

\* C10, the failing case: everything has finished, and the subscriber's
\* last event is a Downloading value while Ready is stored.
C10_LastEventNotStored ==
    /\ appHandle
    /\ life.pc = "idle" /\ att.pc = "idle"
    /\ AllReportersDone
    /\ status = Ready
    /\ IsDownloading(lastEv)

\* --------------------------------------------------------------------- C11
\* The progress events reporter i still holds: the one it has taken and is
\* still processing, then those queued on its channel, oldest first.
InFlight(i) ==
    (IF reps[i].pc = "recv" THEN <<>> ELSE <<reps[i].cur>>) \o reps[i].chan

\* The download loop has received a chunk in this step.
ChunkReceived ==
    life.pc = "dl_chunk" /\ life'.downloaded = life.downloaded + 1

Corrects == gs.pc = "write" /\ gs'.pc = "idle"

\* C12: whenever get_status corrects the status to Running{port}, the
\* status it had read was Uninitialized, Ready or Stopped, and port is the
\* port the live child was launched on: it never stores a port the running
\* process does not listen on.
C12_CorrectionReportsChildPort ==
    [][Corrects =>
          /\ Correctable(gs.cur)
          /\ IsRunning(status')
          /\ is_process_running => status'.port = process.port]_vars

\* get_status is about to store the configured port while the live child
\* listens on another one.
C12_ConfiguredPortGuessed ==
    /\ gs.pc = "write"
    /\ is_process_running
    /\ gs.port = config.port
    /\ gs.port # process.port

\* --------------------------------------------------------------------- C13
\* C13: a get_status that has read Uninitialized, Ready or Stopped and has
\* seen the child alive, and then finds the configured port 0 with no
\* Running status stored, ends there: it stores nothing and no port is
\* made up; and no step of get_status before its correcting write changes
\* the stored status.
C13_DynamicPortLeftAlone ==
    /\ [][/\ (gs.pc = "port_config" /\ gs' # gs /\ config.port = 0) =>
                (gs' = IdleGs /\ status' = status)
          /\ (gs.pc # "write" /\ gs' # gs) => status' = status
         ]_vars
    /\ [](gs.pc \in {"port_status", "port_config", "write"} =>
              Correctable(gs.cur))

\* get_status has read a correctable status that is still the stored one,
\* has seen the child alive, and is about to read the configured port 0.
C13_AliveWithDynamicPort ==
    /\ gs.pc = "port_config"
    /\ gs.cur = status
    /\ is_process_running
    /\ config.port = 0

\* --------------------------------------------------------------------- C14
\* start_local_service stores the handle of the child it has spawned.
StoresNewChild == life.pc = "start_spawn" /\ life'.pc = "start_check"

\* C14: the handle of a child that is still alive is never given up: while
\* the held child lives, the handle is neither cleared nor replaced by the
\* handle of a newly spawned child; the only change is the child's exit.
C14_HandleKeptWhileChildAlive ==
    [][(is_process_running /\ (process' # process \/ StoresNewChild)) =>
          process' = [process EXCEPT !.alive = FALSE]]_vars

\* start is about to spawn a child and to store its handle over the handle
\* of a child that is still alive.
C14_SpawnOverLiveChild ==
    /\ life.pc = "start_spawn"
    /\ appDataDir
    /\ is_process_running

\* --------------------------------------------------------------------- C15
\* fetch_latest_version is called / its request completes in this step.
FetchCalled == ver'.calls = ver.calls + 1

FetchAnswered == ver.pc = "sent" /\ ver'.pc = "idle"

\* C15: a fetch_latest_version called while the cache file holds a tag T
\* written at most VERSION_CACHE_TTL_SECS ago returns T at once, sends no
\* request to the release index and leaves the cache as it is.
C15_FreshCacheAnswersWithoutRequest ==
    [][(/\ FetchCalled
        /\ read_version_cache.some
        /\ ver.now - ver.cache.timestamp <= VERSION_CACHE_TTL_SECS) =>
           /\ ver'.pc = "idle"
           /\ ver'.ret = ver.cache.version
           /\ ~ver'.asked
           /\ ver'.cache = ver.cache]_vars

\* A tag written by an earlier call of this run is returned, without a
\* request, by a call made in the last second of its TTL.
C15_CachedTagReturnedAtTtl ==
    /\ ver.calls >= 2
    /\ ver.pc = "idle"
    /\ ~ver.asked
    /\ ver.cache.timestamp > 0
    /\ ver.now = ver.cache.timestamp + VERSION_CACHE_TTL_SECS
    /\ ver.ret = ver.cache.version

\* --------------------------------------------------------------------- C16
\* C16: when the release index answers 403 or 429 and the cache file is
\* readable, fetch_latest_version returns the cached tag (a success value,
\* not an error), expired or not, and the cache is left as it is.
C16_RateLimitReturnsCachedTag ==
    [][(/\ FetchAnswered
        /\ ver'.answer \in {"403", "429"}
        /\ read_version_cache.some) =>
           /\ ver'.ret = ver.cache.version
           /\ ver'.ret \in Tags
           /\ ver'.cache = ver.cache]_vars

\* A rate-limited call has returned the tag of an expired cache.
C16_ExpiredCacheUsedOnRateLimit ==
    /\ ver.pc = "idle"
    /\ ver.answer \in {"403", "429"}
    /\ read_version_cache.some
    /\ is_expired(ver.cache)
    /\ ver.ret = ver.cache.version

\* --------------------------------------------------------------------- C17
\* C17: when the request fails or is rate-limited, the result is the
\* cached tag if the cache file is readable (the installed binary is then
\* not asked), otherwise the version the installed binary reports, and
\* Err(DownloadError) exactly when there is neither.
C17_FallbackOrder ==
    [][(FetchAnswered /\ ver'.answer \in {"unreachable", "403", "429"}) =>
           /\ read_version_cache.some =>
                (ver'.ret = ver.cache.version /\ ver'.inst = "unread")
           /\ ~read_version_cache.some =>
                /\ ver'.inst \in get_installed_version
                /\ ver'.inst \in Tags => ver'.ret = ver'.inst
           /\ ver'.ret = "DownloadError" <=>
                (~read_version_cache.some /\ ver'.inst = "none")]_vars

\* Without a cache, a call whose request failed has returned the version
\* reported by the installed binary.
C17_InstalledVersionUsed ==
    /\ ver.pc = "idle"
    /\ ver.answer = "unreachable"
    /\ ~read_version_cache.some
    /\ ver.inst \in Tags
    /\ ver.ret = ver.inst

\* --------------------------------------------------------------------- C18
\* C18 (as stated): a fetch_latest_version that has sent its request can
\* always go on to return, whether or not the release index answers.
C18_FetchAlwaysReturns ==
    ver.pc = "sent" => ENABLED fetch_response

\* C18, the failing case: the request is out, the index stays silent, and
\* nothing bounds the wait.
C18_WaitingOnSilentIndex ==
    /\ ver.pc = "sent"
    /\ ver.silent
    /\ ~ENABLED fetch_response

\* --------------------------------------------------------------------- C19
\* Semantic-version precedence, a before b: the first of major, minor,
\* patch that differs decides; with all three equal a pre-release comes
\* before the release, and two pre-releases are ordered as identifiers.
PrecedenceLess(a, b) ==
    LET ka == <<a.major, a.minor, a.patch>>
        kb == <<b.major, b.minor, b.patch>>
    IN  \/ \E k \in 1..3 : ka[k] < kb[k] /\ \A j \in 1..(k - 1) : ka[j] = kb[j]
        \/ /\ ka = kb
           /\ a.pre # <<>>
           /\ (b.pre = <<>> \/ LettersLess(a.pre, b.pre))

\* C19: the VersionInfo of get_version_info has update_available = TRUE
\* exactly when the installed and the latest tag are both known and, with
\* the leading 'v' characters stripped, latest comes after installed in
\* semantic-version precedence if both parse, and the stripped strings
\* differ if one of them does not parse; it is FALSE when a tag is unknown.
C19_UpdateAvailableBySemver ==
    info.pc = "done" =>
        LET inst == trim_start_matches_v(info.installed)
            lat == trim_start_matches_v(info.latest)
        IN  info.update_available <=>
                /\ info.installed # NoTag
                /\ info.latest # NoTag
                /\ IF VersionParse(inst).ok /\ VersionParse(lat).ok
                   THEN PrecedenceLess(VersionParse(inst), VersionParse(lat))
                   ELSE inst # lat

\* With v1.9.0 installed and v1.10.0 the latest an update is reported.
C19_NumericOrderUpdate ==
    /\ info.pc = "done"
    /\ info.installed = <<"v", "1", ".", "9", ".", "0">>
    /\ info.latest = <<"v", "1", ".", "1", "0", ".", "0">>
    /\ info.update_available

\* --------------------------------------------------------------------- C20
\* download() returns an error to initialize / update_opencode, which
\* return it to their caller, in this step.
DownloadFails == life.pc = "dl_begin" /\ life'.pc = "idle"

\* C20 (as stated): where the platform resolver has no asset for the
\* (OS, ARCH) pair, a download called by initialize or update_opencode
\* fails, and with a configuration error.
C20_UnsupportedIsConfigError ==
    [][(life.pc = "dl_begin" /\ LifeStep /\ build_download_url = "none") =>
          (DownloadFails /\ life'.ret = "ConfigError")]_vars

\* C20, the failing case: initialize on an unsupported build has returned
\* a download error.
C20_UnsupportedIsDownloadError ==
    /\ build_download_url = "none"
    /\ life.op = "initialize"
    /\ life.pc = "idle"
    /\ life.ret = "DownloadError"

\* ------------------------------------------------------------------ C21
\* extract_binary_sync returns in this step.
ExtractReturns == ext.ret = "none" /\ ext'.ret # "none"

C22_NoLockAcrossExitWait ==
    /\ (life.pc \in {"stop_wait", "stop_poll"} => ~procLock)
    /\ (gs.pc = "proc" => ENABLED get_status_proc)

\* C22, the failing case: outside Windows stop sits in child.wait() under
\* the process write lock, the child alive, and a get_status waits for the
\* lock.
C22_StatusBlockedByWait ==
    /\ ~isWindows
    /\ life.pc = "stop_wait"
    /\ process.alive
    /\ procLock
    /\ gs.pc = "proc"
    /\ ~ENABLED get_status_proc

\* ------------------------------------------------------------------ C23
\* C23 (as stated): an initialize that read a remote configuration has
\* probed the remote URL by the time it writes Ready; it writes no
\* Downloading status and starts no download.
C23_RemoteInitializeProbes ==
    [][(life.op = "initialize" /\ life.cfg.mode = "Remote" /\ LifeStep)
           => /\ ~IsDownloading(status')
              /\ reps' = reps
              /\ binaryInstalled' = binaryInstalled
              /\ (status' # status => status' = Ready /\ life.probe = "Ok")
      ]_vars

\* C23, the failing case: a remote initialize has written Ready and is
\* about to return Ok, without the binary, without a download and without
\* any probe.
C23_ReadyWithoutProbe ==
    /\ life.op = "initialize"
    /\ life.pc = "emit" /\ life.kret = "Ok"
    /\ life.cfg.mode = "Remote"
    /\ life.probe = "none"
    /\ status = Ready
    /\ ~binaryInstalled
    /\ reps = <<>>

\* ------------------------------------------------------------------ C24
\* C24: a start that read a remote configuration goes from get_config
\* straight to the probe, writing nothing. From the probe it either writes
\* Running with the configured port, the probe having returned Ok, or it
\* returns ConnectionError with the stored status as it was. No step of it
\* writes Starting or touches the process handle.
C24_RemoteStartProbesFirst ==
    /\ [][/\ (life.pc = "start_begin" /\ config.mode = "Remote" /\ LifeStep
               => /\ life'.pc = "start_remote"
                  /\ life'.probe = "none"
                  /\ status' = status /\ process' = process)
          /\ (life.pc = "start_remote" /\ LifeStep
               => /\ process' = process
                  /\ \/ /\ life'.probe = "Ok"
                        /\ status' = Running(life.cfg.port)
                        /\ life'.pc = "emit" /\ life'.kret = "Ok"
                     \/ /\ Returns
                        /\ life'.ret = StartResult("ConnectionError")
                        /\ status' = status)
         ]_vars
    /\ [](life.cfg.mode = "Remote" /\ life.op \in {"start", "restart"}
            /\ life.pc = "emit" /\ life.pend # Stopped
          => life.pend = Running(life.cfg.port) /\ life.probe = "Ok")

\* A remote start has written Running after a probe that succeeded; no
\* child was spawned.
C24_RemoteRunningAfterProbe ==
    /\ life.op = "start"
    /\ life.cfg.mode = "Remote"
    /\ life.pc = "emit"
    /\ life.probe = "Ok"
    /\ status = Running(life.cfg.port)
    /\ process = NoChild

\* ------------------------------------------------------------------ C25
\* C25 (as stated): a local start that finds the companion file leaves it
\* with server.port equal to the resolved port and with every other member
\* of the document as it was: none added, removed or modified.
C25_OnlyPortPatched ==
    [][(doc' # doc /\ doc.content.file # "absent")
           => /\ doc'.content.server = "object"
              /\ doc'.content.port = doc'.resolved
              /\ doc'.content =
                     [doc.content EXCEPT !.server = "object",
                                         !.port = doc'.resolved]
      ]_vars

\* C25, the failing case: the file held a server object and no plugin
\* member; the start has patched the port and added the plugin member.
C25_PluginMemberAdded ==
    /\ doc.resolved # -1
    /\ doc.was.file = "object"
    /\ doc.was.server = "object"
    /\ doc.was.plugin = "absent"
    /\ doc.content.port = doc.resolved
    /\ doc.content.plugin = "bridge"

\* ------------------------------------------------------------------ C26
\* A reporter hands a progress event to emit_download_progress in this
\* step, and a handle is there to deliver it.
ProgressDelivered ==
    /\ appHandle
    /\ \E i \in 1..Len(reps) :
         reps[i].pc = "recv" /\ reps'[i].pc = "status"

\* C26 (as stated): a download-progress event is delivered only while the
\* stored status is Downloading, during initialize and update_opencode
\* alike.
C26_ProgressOnlyWhileDownloading ==
    [][ProgressDelivered => IsDownloading(status)]_vars

\* C26, the failing case: update_opencode has stopped the service and its
\* reporter has delivered the first progress event of the download, the
\* stored status still Stopped.
C26_ProgressWhileStopped ==
    /\ life.op = "update"
    /\ status = Stopped
    /\ lastProgress # NoProgress
    /\ \E i \in 1..Len(reps) : reps[i].pc = "status"
                                /\ reps[i].cur = lastProgress

\* ------------------------------------------------------------------ C27
\* C27: on a service whose status is Error the first operation runs as on
\* any other. A start is not turned away: with a fixed port configured it
\* goes on to write Starting, and a liveness check that finds the child
\* alive goes on to write Running with the child's port. When that start
\* has returned Ok the stored status is Running; when an initialize has
\* returned Ok it is Ready.
C27_ErrorIsRecoverable ==
    /\ [][(ops = 1 /\ life.op = "start" /\ LifeStep) =>
            /\ (life.pc = "start_begin" /\ config.mode = "Local"
                  /\ config.port # 0)
                 => life'.pc = "start_starting" /\ life'.port = config.port
            /\ life.pc = "start_starting" => status' = Starting
            /\ (life.pc = "start_check" /\ is_process_running)
                 => life'.pc = "start_running"
            /\ life.pc = "start_running"
                 => /\ status' = Running(life.port)
                    /\ life'.kret = "Ok"
                    /\ process.port = life.port
         ]_vars
    /\ []((ops = 1 /\ life.pc = "idle" /\ life.ret = "Ok")
            => /\ life.op = "start" => IsRunning(status)
               /\ life.op = "initialize" => status = Ready)

\* The first operation on the service in Error, a local start, has
\* returned Ok: Running is stored with the port of the new child.
C27_RunningAfterError ==
    /\ ops = 1
    /\ life.op = "start" /\ life.pc = "idle" /\ life.ret = "Ok"
    /\ process.some /\ process.alive
    /\ status = Running(process.port)
    /\ lastEv = status

\* ------------------------------------------------------------------ C28
\* download() returns in this step.
DownloadReturns == ext.result = "none" /\ ext'.result # "none"

\* C28: while download_file runs, from the request to the end of the body
\* stream, only the archive file is written; the file at the binary path
\* and its .old sibling stay as they are. A response with an error status
\* and a stream that breaks off make download() return DownloadError at
\* that point, and the binary path then holds what it held at the call:
\* nothing, or the binary installed before.
C28_FailedDownloadLeavesBinary ==
    /\ [][ext.pc \in {"idle", "stream"}
            => /\ ext'.dest = ext.dest
               /\ ext'.old = ext.old
               /\ (DownloadReturns => ext'.failed # "none")
               /\ (ext'.archive # ext.archive
                     => ext'.archive \in {"partial", "complete"})
         ]_vars
    /\ [](ext.failed \in {"error_for_status", "stream"}
            => /\ ext.pc = "done"
               /\ ext.result = "DownloadError"
               /\ ext.dest = IF binaryInstalled THEN "old" ELSE "none")

\* The body stream broke off after a chunk was written: download() has
\* returned DownloadError, a partial archive is left and the installed
\* binary is the old one.
C28_StreamBrokeOff ==
    /\ ext.pc = "done"
    /\ ext.failed = "stream"
    /\ ext.result = "DownloadError"
    /\ ext.chunks > 0
    /\ ext.archive = "partial"
    /\ binaryInstalled /\ ext.dest = "old"

\* ------------------------------------------------------------------ C29
\* C29: every step of restart. It begins with the first step of stop; its
\* start begins only from the emit of the Stopped that stop wrote, the
\* handle cleared; when it writes Starting the event last delivered is
\* Stopped; at the spawn no handle is held; and it returns only where start
\* returns, never from its stop, with the result of start.
C29_RestartStopsThenStarts ==
    [][(life'.op = "restart" /\ LifeStep) =>
          /\ life.pc = "idle" => life'.pc = "stop_read"
          /\ life'.pc = "start_begin"
               => /\ life.pc = "emit" /\ life.pend = Stopped
                  /\ process = NoChild
                  /\ lastEv' = Stopped
          /\ life.pc = "start_starting"
               => /\ status' = Starting
                  /\ lastEv = Stopped /\ process = NoChild
          /\ life.pc = "start_spawn" => process = NoChild
          /\ Returns
               => /\ life.pc \in {"start_begin", "start_spawn",
                                  "start_remote", "emit"}
                  /\ life.pc = "emit"
                       => /\ life.pend # Stopped
                          /\ life'.ret = IF IsRunning(life.pend)
                                         THEN "Ok" ELSE "ServiceStartError"
                  /\ life.pc = "start_remote"
                       => life'.ret = "ConnectionError"
                  /\ life.pc \in {"start_begin", "start_spawn"}
                       => life'.ret \in {"ServiceStartError", "BinaryNotFound",
                                         "ConfigError"}
      ]_vars

\* A restart of a service with a child: stop has cleared the handle, Stopped
\* and then Starting were delivered, and the new child is about to be
\* spawned.
C29_RestartAtSpawn ==
    /\ life.op = "restart"
    /\ life.pc = "start_spawn"
    /\ life.pid
    /\ process = NoChild
    /\ status = Starting /\ lastEv = Starting

\* ------------------------------------------------------------------ C30
\* C30 (as stated): when a stop and the get_status calls that ran next to it
\* have all returned, the stored status is Stopped; the correction of
\* get_status does not replace the Stopped of a finished stop by Running.
C30_StoppedAfterStopAndGetStatus ==
    (life.op = "stop" /\ life.pc = "idle" /\ gs.pc = "idle")
        => status = Stopped

\* C30, the failing case: stop has returned Ok and holds no handle, the
\* get_status that had seen the child alive has returned, and Running is
\* stored.
C30_RunningAfterStop ==
    /\ life.op = "stop"
    /\ life.pc = "idle" /\ life.ret = "Ok"
    /\ gs.pc = "idle"
    /\ process = NoChild
    /\ IsRunning(status)
    /\ lastEv = Stopped

\* --------------------------------------------------------------------- C31
\* C31 (as stated): when initialize or update_opencode has returned the
\* error of its download or extraction and the reporter of that download
\* has ended, the stored status is not a Downloading value.
C31_FailureLeavesNoDownloading ==
    (/\ life.op \in {"initialize", "update"}
     /\ life.pc = "idle"
     /\ life.ret \in {"DownloadError", "ExtractError", "ConfigError"}
     /\ AllReportersDone)
        => ~IsDownloading(status)

\* C31, the failing case: initialize has returned the error of the
\* extraction, the reporter has ended, and a Downloading value is stored.
C31_DownloadingAfterFailure ==
    /\ life.op = "initialize"
    /\ life.pc = "idle" /\ life.ret = "ExtractError"
    /\ Len(reps) = 1 /\ AllReportersDone
    /\ IsDownloading(status)

\* --------------------------------------------------------------------- C32
\* The step of start in which start_local_service looks for the binary and
\* finds none.
StartWithoutBinary ==
    /\ life.pc = "start_begin" /\ life'.pc # "start_begin"
    /\ config.mode = "Local"
    /\ ~binaryInstalled

\* What that step leaves alone: the stored status, what the subscriber was
\* last sent, the child handle and the companion file; and the operation
\* has ended, so nothing of it is still to run.
StartRefusedCleanly ==
    /\ life'.pc = "idle"
    /\ UNCHANGED <<status, lastEv, ord, process, doc, config,
                   binaryInstalled>>

\* C32 (as stated): a local start with no binary installed returns
\* BinaryNotFound, with the status unchanged, no event emitted, no process
\* spawned and the companion file not written.
C32_BinaryNotFoundFirst ==
    [][StartWithoutBinary =>
          /\ StartRefusedCleanly
          /\ life.op # "update" => life'.ret = "BinaryNotFound"]_vars

\* C32 (amended): the same, except that with the configured port 0 the
\* port is resolved before the binary is looked for, and a failed
\* find_available_port returns ServiceStartError instead.
C32_BinaryNotFoundAfterPort ==
    [][StartWithoutBinary =>
          /\ StartRefusedCleanly
          /\ life.op # "update" =>
                \/ life'.ret = "BinaryNotFound"
                \/ config.port = 0 /\ life'.ret = "ServiceStartError"]_vars

\* C32, the case: after a stop, a local start on the fixed port has
\* returned BinaryNotFound; Stopped is stored and was the last event.
C32_RefusedAfterStop ==
    /\ life.op = "start"
    /\ life.pc = "idle" /\ life.ret = "BinaryNotFound"
    /\ config.mode = "Local" /\ config.port # 0
    /\ ~binaryInstalled
    /\ status = Stopped /\ lastEv = Stopped
    /\ process = NoChild

\* --------------------------------------------------------------------- C33
\* A step of initialize, its call included.
InitializeStep == LifeStep /\ life'.op = "initialize"

\* C33: with the binary on disk, every step of initialize. The call goes
\* straight to the write of Ready, whatever the stored status; no reporter
\* is spawned and nothing is downloaded; the only status written is Ready,
\* written by its one write, whatever was stored; the only event emitted
\* is Ready; the child handle and the installation are left alone; and it
\* returns Ok.
C33_InstalledInitializeOnlyReady ==
    [][(InitializeStep /\ binaryInstalled) =>
          /\ life'.pc \in {"init_ready", "emit", "idle"}
          /\ life.pc = "idle" => life'.pc = "init_ready"
          /\ UNCHANGED <<reps, process, binaryInstalled, lastProgress>>
          /\ life.pc = "init_ready" => status' = Ready /\ life'.pend = Ready
          /\ life.pc # "init_ready" => UNCHANGED status
          /\ lastEv' # lastEv => lastEv' = Ready /\ life.pc = "emit"
          /\ life'.pc = "idle" => life'.ret = "Ok"]_vars

\* C33, the case: in local mode initialize has returned Ok on a service
\* whose child is alive; Ready is stored and was the last event, the
\* handle of the live child is still held, and no reporter was spawned.
C33_ReadyOverRunning ==
    /\ life.op = "initialize"
    /\ life.pc = "idle" /\ life.ret = "Ok"
    /\ config.mode = "Local"
    /\ binaryInstalled
    /\ status = Ready /\ lastEv = Ready
    /\ process.some /\ process.alive
    /\ reps = <<>>

\* --------------------------------------------------------------------- C34
\* C34 (as stated): every step of get_status leaves the child handle alone
\* and changes the stored status only from Uninitialized, Ready or Stopped,
\* and only to Running; a stored Downloading, Starting, Running or Error is
\* never changed by it.
C34_GetStatusOnlyUpgrades ==
    [][gs' # gs =>
          /\ UNCHANGED process
          /\ status' # status => Correctable(status) /\ IsRunning(status')]_vars

\* C34, the failing case: start has written and emitted Starting and has
\* not yet spawned; get_status, which had read the status before, has since
\* returned, and Running is stored.
C34_RunningOverStarting ==
    /\ life.op \in {"start", "restart"}
    /\ life.pc = "start_spawn"
    /\ lastEv = Starting
    /\ gs.pc = "idle"
    /\ IsRunning(status)

\* --------------------------------------------------------------------- C35
\* C35: whenever get_endpoint is called it returns a value exactly when
\* the stored status is Running: in local mode the url made of
\* http://127.0.0.1: and the port of the stored Running status, in remote
\* mode the url of the configured mode; in every other status nothing.
C35_EndpointIffRunning ==
    /\ get_endpoint.some <=> IsRunning(status)
    /\ ~IsRunning(status) => get_endpoint = NoEndpoint
    /\ (IsRunning(status) /\ config.mode = "Local")
          => get_endpoint.url = <<"http://127.0.0.1:", status.port>>
    /\ (IsRunning(status) /\ config.mode = "Remote")
          => get_endpoint.url = RemoteUrl

\* C35, the case: the child runs on a port the OS assigned, the
\* configuration has since been given a fixed port, and get_endpoint
\* answers with the port of the stored status.
C35_EndpointOfDynamicPort ==
    /\ config.mode = "Local"
    /\ status = Running(process.port)
    /\ process.some /\ process.alive
    /\ status.port \in EphemeralPorts
    /\ config.port \notin EphemeralPorts \cup {0}
    /\ get_endpoint = SomeEndpoint(LocalUrl(status.port))

\* --------------------------------------------------------------------- C36
\* The step in which start is invoked.
StartInvoked == life.op # "start" /\ life'.op = "start"

\* C36: during setup, initialize is invoked only with the subscriber
\* attached and set_app_handle returned; start is invoked only by the task
\* that has seen initialize return Ok and has read a configuration whose
\* auto_start flag is true; and after an initialize that returned an error
\* the task invokes nothing more.
C36_SetupOrder ==
    /\ [](life.op # "none" => appHandle /\ att.pc = "idle")
    /\ [](life.op = "setup" => life.pc = "idle" /\ life.ret = "Ok" /\ ops = 1)
    /\ [][StartInvoked =>
             /\ life.op = "setup"
             /\ life.pc = "idle" /\ life.ret = "Ok"
             /\ life.cfg.auto_start]_vars
    /\ [][(life.op = "initialize" /\ life.pc = "idle" /\ life.ret # "Ok")
             => UNCHANGED <<life, ops>>]_vars
    /\ [][(life.op = "setup" /\ ~life.cfg.auto_start)
             => UNCHANGED <<life, ops>>]_vars

\* C36, the case: after a download by initialize the setup has started the
\* service automatically; start has returned Ok and Running was delivered.
C36_AutoStarted ==
    /\ life.op = "start"
    /\ life.pc = "idle" /\ life.ret = "Ok"
    /\ ops = 2
    /\ Len(reps) = 1
    /\ IsRunning(status) /\ lastEv = status

\* --------------------------------------------------------------------- C37
\* Thread t cannot take its next lock until thread u has moved: u holds the
\* lock in a mode that excludes t, or t wants to read and u is a writer
\* queued for the same lock (a parked writer holds new readers back).
WaitsFor(t, u) ==
    \/ BlockedBy(t, u)
    \/ /\ t # u
       /\ NextLockStep(t).a = "acq" /\ NextLockStep(t).m = "R"
       /\ NextLockStep(u).a = "acq" /\ NextLockStep(u).m = "W"
       /\ NextLockStep(u).l = NextLockStep(t).l
       /\ Blocked(u)

RECURSIVE WaitChain(_)
\* The threads reached from the set S along WaitsFor.
WaitChain(S) ==
    LET T == S \cup {u \in LockThreads : \E t \in S : WaitsFor(t, u)}
    IN IF T = S THEN S ELSE WaitChain(T)

\* C37: in every interleaving of get_status, get_endpoint, get_config,
\* set_config, set_mode, set_app_handle, the reporter's update_status and a
\* lifecycle operation, no thread waits for a lock along a chain of
\* waiting threads that leads back to itself, and some thread can always
\* take its next step.
C37_NoLockCycle ==
    /\ \A t \in LockThreads :
          t \notin WaitChain({u \in LockThreads : WaitsFor(t, u)})
    /\ \E t \in LockThreads : ~Blocked(t)

\* C37, the case: get_endpoint holds the config lock and waits for the
\* status lock, which the lifecycle operation holds for its write;
\* set_config waits for the config lock; get_status waits for the status
\* lock too.
C37_EndpointWaitsHoldingConfig ==
    /\ lk.op # "unfollowed"
    /\ HeldMode("get_endpoint", "config") = "R"
    /\ BlockedBy("get_endpoint", "lifecycle")
    /\ BlockedBy("set_config", "get_endpoint")
    /\ BlockedBy("get_status", "lifecycle")

\* --------------------------------------------------------------------- C38
\* C38 (as stated): an instance registered under an id leaves the map only
\* by a close of that id or when its own shell has exited; the cleanup of
\* the reader thread of an earlier instance of the id does not remove it.
C38_KeptUntilCloseOrExit ==
    [][\A id \in TerminalIds :
          LET g == term.map[id] IN
          (g # 0 /\ term'.map[id] = 0) =>
              \/ term'.inst[g].closed
              \/ term.inst[g].shell = "exited"]_vars

\* C38, the failing case: the id was closed and registered again; the
\* reader thread of the first instance has finished its cleanup; the
\* second instance, its shell alive and never closed, has no entry.
C38_LaterInstanceRemoved ==
    /\ Len(term.inst) = 2
    /\ term.inst[1].id = term.inst[2].id
    /\ term.inst[1].closed /\ term.inst[1].reader = "done"
    /\ term.inst[2].shell = "alive" /\ ~term.inst[2].closed
    /\ term.inst[2].reader = "reading"
    /\ term.map[term.inst[2].id] = 0

\* --------------------------------------------------------------------- C39
RECURSIVE Flatten(_)
\* The hunks one after the other.
Flatten(hs) == IF hs = <<>> THEN <<>> ELSE Head(hs) \o Flatten(Tail(hs))

\* The hunks that hold place i.
HunksOf(i) ==
    {h \in 1..Len(dh.hunks) :
        \E p \in 1..Len(dh.hunks[h]) : dh.hunks[h][p] = i}

\* The places of hunk h whose line is a change.
ChangesIn(h) ==
    {p \in 1..Len(dh.hunks[h]) : dh.lines[dh.hunks[h][p]] # "Unchanged"}

\* C39: when group_into_hunks has returned. The places of all hunks, one
\* hunk after the other, increase strictly (no line in two hunks or twice
\* in one, and all in original order); each hunk is a run of neighbouring
\* lines; every added or removed line is in exactly one hunk; two changes
\* with only unchanged lines between them are in different hunks exactly
\* when more than 2*context lines lie between them; and each hunk has a
\* change, with at most `context` lines before its first and after its
\* last change.
C39_HunksPartitionChanges ==
    dh.pc = "done" =>
        LET flat == Flatten(dh.hunks)
            n == Len(dh.lines)
            changed == {i \in 1..n : dh.lines[i] # "Unchanged"}
        IN /\ \A p \in 1..(Len(flat) - 1) : flat[p] < flat[p + 1]
           /\ \A p \in 1..Len(flat) : flat[p] \in 1..n
           /\ \A h \in 1..Len(dh.hunks) :
                 \A p \in 1..(Len(dh.hunks[h]) - 1) :
                    dh.hunks[h][p + 1] = dh.hunks[h][p] + 1
           /\ \A i \in changed : Cardinality(HunksOf(i)) = 1
           /\ \A a, b \in changed :
                 (a < b /\ \A i \in (a + 1)..(b - 1) : i \notin changed)
                    => (HunksOf(a) # HunksOf(b) <=> b - a - 1 > 2 * dh.context)
           /\ \A h \in 1..Len(dh.hunks) :
                 /\ ChangesIn(h) # {}
                 /\ \A p \in 1..Len(dh.hunks[h]) :
                       \E q \in ChangesIn(h) :
                          /\ q - p <= dh.context
                          /\ p - q <= dh.context

\* C39, the case: two hunks returned for a diff whose two changes lie more
\* than 2*context lines apart, with context above 0, each hunk with
\* context lines on both sides of its change.
C39_TwoHunksWithContext ==
    /\ dh.pc = "done"
    /\ dh.context > 0
    /\ Len(dh.hunks) = 2
    /\ Len(dh.hunks[1]) = 2 * dh.context + 1
    /\ Len(dh.hunks[2]) = 2 * dh.context + 1

====
